---- MODULE Spec2Model ----
(***************************************************************************)
(* AlphaForge: the cloud-backtest pipeline (TradingTools.cloud_backtest    *)
(* over QuantConnectCloudBridge) and the MCP tool endpoints of McpServer   *)
(* with their authentication gate.                                         *)
(*                                                                         *)
(* Texts are sequences of atoms.  An atom is one character, or a literal   *)
(* fragment of the source (an f-string's fixed part, a CLI word) that no   *)
(* operation of the program ever splits.  Python values are records        *)
(* [t |-> <type name>, v |-> <payload>] so that values of different Python *)
(* types stay distinguishable and comparable.                              *)
(***************************************************************************)
EXTENDS Integers, Sequences, FiniteSets, TLC

\* ------------------------------------------------------------------ bounds
\* Longest standard output, in atoms, the external CLI prints for a submit.
MaxOut == 3
MaxCallers == 2
MaxAuthorizeCalls == 2
MaxRuns == 2

\* ------------------------------------------------------------------- state
VARIABLES
    environ,     \* os.environ["ALLOWED_SYMBOLS"]: <<>> unset, <<text>> set
    pc,          \* per cloud_backtest run: idle, await_push, await_submit, done
    args,        \* per run: the arguments cloud_backtest was called with
    proc,        \* per run: the command line of the external process awaited
    bt_result,   \* per run: <<>> or <<the result submit_cloud_backtest returned>>
    outcome,     \* per run: <<>> or <<the value cloud_backtest returned>>
    trace        \* per run: the calls and stage marks of the run, in order

pipelineVars == <<environ, pc, args, proc, bt_result, outcome, trace>>

VARIABLES
    tools,          \* McpServer.tools: the callables given to add_tools, in order
    routes,         \* the POST routes mounted on the app, in order
    authenticator,  \* McpServer.authenticator: <<>> for None, else <<object>>
    serving,        \* run() has been called
    last,           \* <<>> or <<the latest endpoint invocation and its response>>
    resources       \* McpServer.resources: the objects given to add_resources

serverVars == <<tools, routes, authenticator, serving, last, resources>>

VARIABLES
    frames,      \* per bridge caller: the locals of its execute activation
    processes    \* the external processes spawned so far, in spawn order

bridgeVars == <<frames, processes>>
vars == <<pipelineVars, serverVars, bridgeVars>>

\* The cloud_backtest activations that may be in flight.
RunIds == {1}

\* ------------------------------------------------------------ Python values
Str(s) == [t |-> "str", v |-> s]
None == [t |-> "NoneType", v |-> <<>>]
PyInt(a) == [t |-> "int", v |-> <<a>>]
\* A dict is its sequence of <<key, value>> items, keys distinct.
Dict(items) == [t |-> "dict", v |-> items]
\* The McpServer instance, when it is passed as an argument.
ServerObj == [t |-> "McpServer", v |-> <<>>]

\* Python truthiness, as `if symbol:` and `if backtest_name:` evaluate it.
Truthy(x) ==
    CASE x.t = "NoneType" -> FALSE
      [] x.t = "str" -> x.v # <<>>
      [] x.t = "int" -> x.v # <<"0">>
      [] x.t = "dict" -> x.v # <<>>
      [] OTHER -> TRUE

HasKey(d, k) == \E i \in 1..Len(d.v) : d.v[i][1] = k

\* dict.get(k): the value under k, or None.
DictGet(d, k) ==
    IF HasKey(d, k)
    THEN d.v[CHOOSE i \in 1..Len(d.v) : d.v[i][1] = k][2]
    ELSE None

\* -------------------------------------------------------------------- text
LowerSeq == <<"a","b","c","d","e","f","g","h","i","j","k","l","m",
              "n","o","p","q","r","s","t","u","v","w","x","y","z">>
UpperSeq == <<"A","B","C","D","E","F","G","H","I","J","K","L","M",
              "N","O","P","Q","R","S","T","U","V","W","X","Y","Z">>
Digits == {"0","1","2","3","4","5","6","7","8","9"}

IsAZ(c) == \E i \in 1..Len(UpperSeq) : UpperSeq[i] = c
Isaz(c) == \E i \in 1..Len(LowerSeq) : LowerSeq[i] = c

UpperAtom(c) ==
    IF Isaz(c)
    THEN UpperSeq[CHOOSE i \in 1..Len(LowerSeq) : LowerSeq[i] = c]
    ELSE c

\* str.upper()
Upper(s) == [i \in 1..Len(s) |-> UpperAtom(s[i])]

RECURSIVE SplitFrom(_, _, _, _)
SplitFrom(s, sep, i, cur) ==
    IF i > Len(s) THEN <<cur>>
    ELSE IF s[i] = sep THEN <<cur>> \o SplitFrom(s, sep, i + 1, <<>>)
    ELSE SplitFrom(s, sep, i + 1, Append(cur, s[i]))

\* str.split(sep): the list of pieces; the empty text splits into [""].
Split(s, sep) == SplitFrom(s, sep, 1, <<>>)

Range(f) == {f[i] : i \in DOMAIN f}

\* ------------------------------------------------------------- shlex.quote
\* The characters shlex leaves unquoted: [\w@%+=:,./-].
SafeAtom(c) ==
    \/ IsAZ(c) \/ Isaz(c) \/ c \in Digits
    \/ c \in {"_", "@", "%", "+", "=", ":", ",", ".", "/", "-"}

RECURSIVE ReplaceQuote(_)
ReplaceQuote(s) ==
    IF s = <<>> THEN <<>>
    ELSE (IF Head(s) = "'" THEN <<"'", "\"", "'", "\"", "'">> ELSE <<Head(s)>>)
         \o ReplaceQuote(Tail(s))

\* shlex.quote(s) of a text.
ShlexQuote(s) ==
    IF s = <<>> THEN <<"'", "'">>
    ELSE IF \A i \in 1..Len(s) : SafeAtom(s[i]) THEN s
    ELSE <<"'">> \o ReplaceQuote(s) \o <<"'">>

\* ------------------------------------------------------------- exceptions
NoExc == [exc |-> "", msg |-> <<>>]
Exc(kind, msg) == [exc |-> kind, msg |-> msg]

\* ------------------------------------------------------ symbol validation
\* os.environ["ALLOWED_SYMBOLS"]: <<>> when unset, <<text>> when set.
DefaultAllowed ==
    <<"S","P","Y",",","Q","Q","Q",",","A","A","P","L",",","G","O","O","G",",",
      "B","T","C","U","S","D",",","E","T","H","U","S","D">>

\* os.getenv("ALLOWED_SYMBOLS", default).split(',')
AllowedList(env) ==
    Range(Split(IF env = <<>> THEN DefaultAllowed ELSE env[1], ","))

\* re.match(r'^[A-Z]{1,5}(USD)?$', u): $ also matches before a final newline.
FormatMatch(u) ==
    \E k \in 1..5 :
        /\ k <= Len(u)
        /\ \A i \in 1..k : IsAZ(u[i])
        /\ SubSeq(u, k + 1, Len(u)) \in
              {<<>>, <<"\n">>, <<"U","S","D">>, <<"U","S","D","\n">>}

\* TradingTools._validate_symbol: the exception it raises, NoExc when none.
_validate_symbol(symbol, env) ==
    IF symbol.t # "str"
    THEN Exc("AttributeError",
             <<"'", symbol.t, "' object has no attribute 'upper'">>)
    ELSE IF ~FormatMatch(Upper(symbol.v))
    THEN Exc("ValueError", <<"Invalid symbol format: ">> \o symbol.v)
    ELSE IF Upper(symbol.v) \notin AllowedList(env)
    THEN Exc("ValueError",
             <<"Symbol ">> \o symbol.v
                 \o <<" not permitted in current configuration.">>)
    ELSE NoExc

\* TradingTools._format_error
_format_error(context, message) ==
    [status |-> "error", context |-> context, message |-> message,
     timestamp |-> <<"<utcnow>", "Z">>]

\* ------------------------------------------------- identifier extraction
IsSpace(a) == a \in {" ", "\n", "\t"}
IsSep(a) == a = ":" \/ IsSpace(a)
IsLabel(a) == a \in {"backtestId", "BacktestId"}

\* The last index of the run of atoms satisfying P that starts at i
\* (i - 1 when out[i] does not satisfy it).
RECURSIVE SepRunEnd(_, _)
SepRunEnd(out, i) ==
    IF i <= Len(out) /\ IsSep(out[i]) THEN SepRunEnd(out, i + 1) ELSE i - 1
RECURSIVE TokenRunEnd(_, _)
TokenRunEnd(out, i) ==
    IF i <= Len(out) /\ ~IsSpace(out[i]) THEN TokenRunEnd(out, i + 1) ELSE i - 1

\* Where [:\s]+ may end for a match whose label is at i: it is greedy and
\* backtracks until one non-space atom is left for (\S+).
SepEnds(out, i) ==
    {k \in (i + 1)..SepRunEnd(out, i + 1) :
        k + 1 <= Len(out) /\ ~IsSpace(out[k + 1])}

MatchesAt(out, i) == IsLabel(out[i]) /\ SepEnds(out, i) # {}

Max(S) == CHOOSE m \in S : \A n \in S : n <= m
Min(S) == CHOOSE m \in S : \A n \in S : m <= n

ExtractWholeMatch(cli_output) ==
    LET starts == {i \in 1..Len(cli_output) : MatchesAt(cli_output, i)}
    IN  IF starts = {} THEN None
        ELSE LET i == Min(starts)
                 k == Max(SepEnds(cli_output, i))
             IN  Str(SubSeq(cli_output, i, TokenRunEnd(cli_output, k + 1)))
\* TradingTools._extract_backtest_id:
\* re.search(r"(?:backtestId|BacktestId)[:\s]+(\S+)", cli_output), group 1.
_extract_backtest_id(cli_output) ==
    LET starts == {i \in 1..Len(cli_output) : MatchesAt(cli_output, i)}
    IN  IF starts = {} THEN None
        ELSE LET i == Min(starts)
                 k == Max(SepEnds(cli_output, i))
             IN  Str(SubSeq(cli_output, k + 1, TokenRunEnd(cli_output, k + 1)))

\* ----------------------------------------------------- QuantConnectCloudBridge
\* What the operating system reports for one launched command: the process
\* exits with a code and its captured streams, or the launch itself faults.
Exit(rc, out, err) == [kind |-> "exit", rc |-> rc, stdout |-> out, stderr |-> err,
                       msg |-> <<>>]
LaunchFault(kind, msg) == [kind |-> kind, rc |-> 0, stdout |-> <<>>, stderr |-> <<>>,
                           msg |-> msg]

\* QuantConnectCloudBridge._execute_lean_command: the result mapping built
\* from the outcome of the launched process.
ExecutePartialOnFault(po) ==
    IF po.kind = "exit"
    THEN [success |-> po.rc = 0, output |-> po.stdout, error |-> po.stderr,
          return_code |-> po.rc]
    ELSE [success |-> FALSE, error |-> <<"An unexpected error occurred: ">> \o po.msg]
_execute_lean_command(po) ==
    CASE po.kind = "exit" ->
            [success |-> po.rc = 0, output |-> po.stdout, error |-> po.stderr,
             return_code |-> po.rc]
      [] po.kind = "FileNotFoundError" ->
            [success |-> FALSE, output |-> <<>>,
             error |-> <<"'lean' command not found. Check LEAN installation and PATH.">>,
             return_code |-> -1]
      [] OTHER ->
            [success |-> FALSE, output |-> <<>>,
             error |-> <<"An unexpected error occurred: ">> \o po.msg,
             return_code |-> -1]

\* The command line _execute_lean_command hands to the shell.
FullCommand(command) == <<"lean ">> \o command

\* shlex.quote(x) of a Python value: it raises TypeError on a non-string.
QuoteExc(x) ==
    IF x.t = "str" THEN NoExc
    ELSE Exc("TypeError", <<"expected string or bytes-like object">>)

\* QuantConnectCloudBridge.push_changes: the command it builds.
push_changes(project_name_or_id) ==
    <<"cloud push ">> \o ShlexQuote(project_name_or_id.v)

\* QuantConnectCloudBridge.submit_cloud_backtest: the command it builds.
submit_cloud_backtest(project_name_or_id, backtest_name) ==
    <<"cloud backtest ">> \o ShlexQuote(project_name_or_id.v)
        \o (IF Truthy(backtest_name)
            THEN <<" --backtest-name ">> \o ShlexQuote(backtest_name.v)
            ELSE <<>>)

\* QuantConnectCloudBridge.deploy_live: the command it builds.
deploy_live(project_name_or_id, environment_name) ==
    <<"cloud live deploy ">> \o ShlexQuote(project_name_or_id.v)
        \o <<" --environment ">> \o ShlexQuote(environment_name.v)

\* QuantConnectCloudBridge.get_project_status: the command it builds.
get_project_status(project_name_or_id) ==
    <<"cloud status ">> \o ShlexQuote(project_name_or_id.v)

\* str(x) as an f-string substitutes it.
PyStr(x) ==
    CASE x.t = "str" -> x.v
      [] x.t = "int" -> x.v
      [] x.t = "NoneType" -> <<"None">>
      [] OTHER -> <<"<", x.t, " object>">>

\* QuantConnectCloudBridge.create_project: the command it builds.
create_project(project_name, language) ==
    <<"project-create ">> \o ShlexQuote(project_name.v)
        \o <<" --language ">> \o PyStr(language)

\* QuantConnectCloudBridge.get_backtest_status: the command it builds.
get_backtest_status(project_name_or_id, backtest_id) ==
    <<"cloud status ">> \o ShlexQuote(project_name_or_id.v)
        \o <<" --backtest-id ">> \o ShlexQuote(backtest_id.v)

\* QuantConnectCloudBridge.get_backtest_results
get_backtest_results ==
    [success |-> FALSE,
     error |-> <<"Fetching specific backtest results via CLI not fully implemented/verified.">>]

\* ---------------------------------------------------------------- inputs
SPY == <<"S","P","Y">>
Symbols ==
    { Str(SPY),                               \* on the default allow-list
      Str(<<"s","p","y">>),                   \* lower case of an allowed one
      Str(<<"B","T","C","U","S","D">>),       \* allowed by default only
      Str(<<"T","S","L","A">>),               \* well formed, not allowed
      Str(<<"I","N","V","A","L","I","D">>),   \* the test's symbol: 7 letters
      Str(<<"S","P","Y","\n">>),              \* trailing newline
      Str(<<>>),                              \* the empty string
      PyInt("123") }                          \* not a string

\* The strategy_parameters a caller may send: with and without a symbol,
\* with another parameter beside it, and a value that is no mapping.
StrategyParams ==
    {Dict(<< <<"symbol", s>> >>) : s \in Symbols}
        \cup { Dict(<<>>),
               Dict(<< <<"symbol", Str(SPY)>>, <<"window", PyInt("20")>> >>),
               None }

Projects == { Str(<<"P">>), Str(<<"P"," ","A">>), ServerObj }
BacktestNames == { None, Str(<<"R"," ","1">>), PyInt("7") }
Environs == { <<>>, << <<"S","P","Y",",","Q","Q","Q">> >> }

\* What the CLI may print: every text of at most MaxOut atoms.
OutAtoms == {"backtestId", "BacktestId", ":", " ", "BT1"}
Outputs == UNION {[1..n -> OutAtoms] : n \in 0..MaxOut}

PushOutcomes ==
    {Exit(rc, out, err) : rc \in {0, 1}, out \in {<<>>, <<"o">>},
                          err \in {<<>>, <<"e">>}}
        \cup {LaunchFault("FileNotFoundError", <<>>),
              LaunchFault("OSError", <<"E">>)}
SubmitOutcomes ==
    {Exit(rc, out, err) : rc \in {0, 1}, out \in Outputs, err \in {<<>>, <<"e">>}}
        \cup {LaunchFault("FileNotFoundError", <<>>),
              LaunchFault("OSError", <<"E">>)}

\* ------------------------------------------------ TradingTools.cloud_backtest
Ev(name, a) == [ev |-> name, a |-> a]

\* The two except clauses of cloud_backtest.
HandleValueErrorOnly(e) ==
    IF e.exc = "ValueError"
    THEN _format_error("Validation Error", e.msg)
    ELSE e
HandleException(e) ==
    IF e.exc = "ValueError"
    THEN _format_error("Validation Error", e.msg)
    ELSE _format_error("Backtest process failed", e.msg)

\* Lines 75-80: the message of a failed push.
PushExcerptLen == 200
PushErrorDetails(push_result) ==
    push_result.error
        \o (IF push_result.output # <<>>
            THEN <<" | Output: ">>
                   \o SubSeq(push_result.output, 1,
                             IF Len(push_result.output) < PushExcerptLen
                             THEN Len(push_result.output) ELSE PushExcerptLen)
                   \o <<"...">>
            ELSE <<>>)

Finish(r, res, tr) ==
    /\ pc' = [pc EXCEPT ![r] = "done"]
    /\ outcome' = [outcome EXCEPT ![r] = <<res>>]
    /\ trace' = [trace EXCEPT ![r] = tr]
    /\ proc' = [proc EXCEPT ![r] = <<>>]

Await(r, stage, command, tr) ==
    /\ pc' = [pc EXCEPT ![r] = stage]
    /\ proc' = [proc EXCEPT ![r] = <<FullCommand(command)>>]
    /\ trace' = [trace EXCEPT ![r] = tr]
    /\ UNCHANGED outcome

\* Lines 53-57: the symbol is validated when it is truthy; otherwise its
\* absence is only logged.
SymbolMandatory(symbol, env) ==
    IF Truthy(symbol) THEN _validate_symbol(symbol, env)
    ELSE Exc("ValueError", <<"No symbol provided">>)
SymbolCheck(symbol, env) ==
    IF Truthy(symbol) THEN _validate_symbol(symbol, env) ELSE NoExc

\* Lines 34-51: entering cloud_backtest. With a lock per project the call
\* would wait while another activation works on the same project;
MayStartExclusive(r, project_name) ==
    /\ pc[r] = "idle"
    /\ \A q \in DOMAIN pc \ {r} :
          pc[q] \in {"await_push", "await_submit"} =>
              args[q].project_name # project_name
\* the code takes no lock: an idle activation starts at once.
MayStart(r, project_name) == pc[r] = "idle"

\* Lines 51-73: the call, validation, and push_changes up to the launch of
\* its process (the first point where the coroutine is suspended).
PushBeforeValidation(r, project_name, strategy_parameters, backtest_name) ==
    /\ pc[r] = "idle"
    /\ args' = [args EXCEPT ![r] = [project_name |-> project_name,
                                    strategy_parameters |-> strategy_parameters,
                                    backtest_name |-> backtest_name]]
    /\ UNCHANGED <<environ, bt_result>>
    /\ LET tr == <<Ev("push_changes", <<project_name>>)>>
       IN  IF QuoteExc(project_name) # NoExc
           THEN Finish(r, HandleException(QuoteExc(project_name)), tr)
           ELSE Await(r, "await_push", push_changes(project_name), tr)
cloud_backtest(r, project_name, strategy_parameters, backtest_name) ==
    /\ MayStart(r, project_name)
    /\ args' = [args EXCEPT ![r] = [project_name |-> project_name,
                                    strategy_parameters |-> strategy_parameters,
                                    backtest_name |-> backtest_name]]
    /\ UNCHANGED <<environ, bt_result>>
    /\ IF strategy_parameters.t # "dict"
       THEN Finish(r, HandleException(
                         Exc("AttributeError",
                             <<"'", strategy_parameters.t,
                               "' object has no attribute 'get'">>)), <<>>)
       ELSE
       LET symbol == DictGet(strategy_parameters, "symbol")
           ve == SymbolCheck(symbol, environ)
           tr0 == IF Truthy(symbol)
                  THEN <<Ev("_validate_symbol", <<symbol>>)>>
                  ELSE <<Ev("no_symbol", <<>>)>>
           tr1 == IF Truthy(symbol) THEN Append(tr0, Ev("validated", <<symbol>>))
                  ELSE tr0
           tr2 == Append(tr1, Ev("push_changes", <<project_name>>))
       IN  IF ve # NoExc THEN Finish(r, HandleException(ve), tr0)
           ELSE IF QuoteExc(project_name) # NoExc
           THEN Finish(r, HandleException(QuoteExc(project_name)), tr2)
           ELSE Await(r, "await_push", push_changes(project_name), tr2)

\* Line 75: the test of the push result.
PushAlwaysOk(push_result) == TRUE
PushSucceeded(push_result) == push_result.success

\* A cloud_backtest that pushed a second time after a first failed push:
PushRetriedOnce(r, po) ==
    /\ pc[r] = "await_push"
    /\ UNCHANGED <<environ, args, bt_result>>
    /\ LET push_result == _execute_lean_command(po)
           tr0 == Append(trace[r],
                         Ev("push_returned", <<[success |-> push_result.success]>>))
           tr1 == Append(tr0, Ev("submit_cloud_backtest",
                                 <<args[r].project_name, args[r].backtest_name>>))
           qe == IF Truthy(args[r].backtest_name)
                 THEN QuoteExc(args[r].backtest_name) ELSE NoExc
       IN  IF /\ ~PushSucceeded(push_result)
              /\ \A i \in 1..Len(trace[r]) : trace[r][i].ev # "push_returned"
           THEN Await(r, "await_push", push_changes(args[r].project_name),
                      Append(tr0, Ev("push_changes", <<args[r].project_name>>)))
           ELSE IF ~PushSucceeded(push_result)
           THEN Finish(r, _format_error("Push failed", PushErrorDetails(push_result)),
                       tr0)
           ELSE IF qe # NoExc THEN Finish(r, HandleException(qe), tr1)
           ELSE Await(r, "await_submit",
                      submit_cloud_backtest(args[r].project_name,
                                            args[r].backtest_name), tr1)
\* A cloud_backtest that handed the symbol on to the submit command:
PushReturnsForwardsSymbol(r, po) ==
    /\ pc[r] = "await_push"
    /\ UNCHANGED <<environ, args, bt_result>>
    /\ LET push_result == _execute_lean_command(po)
           tr0 == Append(trace[r],
                         Ev("push_returned", <<[success |-> push_result.success]>>))
           tr1 == Append(tr0, Ev("submit_cloud_backtest",
                                 <<args[r].project_name, args[r].backtest_name>>))
           qe == IF Truthy(args[r].backtest_name)
                 THEN QuoteExc(args[r].backtest_name) ELSE NoExc
           symbol == DictGet(args[r].strategy_parameters, "symbol")
       IN  IF ~PushSucceeded(push_result)
           THEN Finish(r, _format_error("Push failed", PushErrorDetails(push_result)),
                       tr0)
           ELSE IF qe # NoExc THEN Finish(r, HandleException(qe), tr1)
           ELSE Await(r, "await_submit",
                      submit_cloud_backtest(args[r].project_name,
                                            args[r].backtest_name)
                          \o (IF Truthy(symbol)
                              THEN <<" --parameter symbol ">> \o ShlexQuote(symbol.v)
                              ELSE <<>>), tr1)
\* Lines 73-88: push_changes returns; on success submit_cloud_backtest is
\* called and runs up to the launch of its process.
PushReturns(r, po) ==
    /\ pc[r] = "await_push"
    /\ UNCHANGED <<environ, args, bt_result>>
    /\ LET push_result == _execute_lean_command(po)
           tr0 == Append(trace[r],
                         Ev("push_returned", <<[success |-> push_result.success]>>))
           tr1 == Append(tr0, Ev("submit_cloud_backtest",
                                 <<args[r].project_name, args[r].backtest_name>>))
           qe == IF Truthy(args[r].backtest_name)
                 THEN QuoteExc(args[r].backtest_name) ELSE NoExc
       IN  IF ~PushSucceeded(push_result)
           THEN Finish(r, _format_error("Push failed", PushErrorDetails(push_result)),
                       tr0)
           ELSE IF qe # NoExc THEN Finish(r, HandleException(qe), tr1)
           ELSE Await(r, "await_submit",
                      submit_cloud_backtest(args[r].project_name,
                                            args[r].backtest_name), tr1)

\* Lines 98-102: the outcome built from the submit result.
OutcomeMessageOnly(bt, backtest_id) ==
    [status |-> IF bt.success THEN "success" ELSE "error",
     backtest_id |-> backtest_id,
     details |-> IF bt.success THEN bt ELSE bt.error]
OutcomeErrorOnMissingId(bt, backtest_id) ==
    [status |-> IF bt.success /\ backtest_id # None THEN "success" ELSE "error",
     backtest_id |-> backtest_id,
     details |-> bt]
SubmitOutcome(bt, backtest_id) ==
    [status |-> IF bt.success THEN "success" ELSE "error",
     backtest_id |-> backtest_id,
     details |-> bt]

\* A cloud_backtest that extracted the identifier from every submit output:
SubmitReturnsAlwaysExtracts(r, po) ==
    /\ pc[r] = "await_submit"
    /\ UNCHANGED <<environ, args>>
    /\ LET bt == _execute_lean_command(po)
           backtest_id == _extract_backtest_id(bt.output)
           tr == Append(Append(trace[r], Ev("submit_returned", <<bt>>)),
                        Ev("_extract_backtest_id", <<Str(bt.output)>>))
       IN  /\ bt_result' = [bt_result EXCEPT ![r] = <<bt>>]
           /\ Finish(r, SubmitOutcome(bt, backtest_id), tr)
\* Lines 85-102: submit_cloud_backtest returns; the identifier is extracted
\* on success and the outcome is returned.
SubmitReturns(r, po) ==
    /\ pc[r] = "await_submit"
    /\ UNCHANGED <<environ, args>>
    /\ LET bt == _execute_lean_command(po)
           backtest_id == IF bt.success THEN _extract_backtest_id(bt.output)
                          ELSE None
           tr0 == Append(trace[r], Ev("submit_returned", <<bt>>))
           tr == IF bt.success
                 THEN Append(tr0, Ev("_extract_backtest_id", <<Str(bt.output)>>))
                 ELSE tr0
       IN  /\ bt_result' = [bt_result EXCEPT ![r] = <<bt>>]
           /\ Finish(r, SubmitOutcome(bt, backtest_id), tr)

\* The caller takes the returned outcome; the activation is gone.
Collect(r) ==
    /\ pc[r] = "done"
    /\ pc' = [pc EXCEPT ![r] = "idle"]
    /\ args' = [args EXCEPT ![r] = <<>>]
    /\ proc' = [proc EXCEPT ![r] = <<>>]
    /\ bt_result' = [bt_result EXCEPT ![r] = <<>>]
    /\ outcome' = [outcome EXCEPT ![r] = <<>>]
    /\ trace' = [trace EXCEPT ![r] = <<>>]
    /\ UNCHANGED environ

\* ------------------------------------------------------------ LeanBridge
\* LeanBridge.execute: the result mapping built from the process outcome.
execute(po) ==
    CASE po.kind = "exit" ->
            [success |-> po.rc = 0, output |-> po.stdout, error |-> po.stderr,
             return_code |-> po.rc]
      [] po.kind = "FileNotFoundError" ->
            [success |-> FALSE, output |-> <<>>,
             error |-> <<"'lean' command not found. Check LEAN installation and PATH.">>,
             return_code |-> -1]
      [] OTHER ->
            [success |-> FALSE, output |-> <<>>,
             error |-> <<"An unexpected error occurred: ">> \o po.msg,
             return_code |-> -1]

\* ------------------------------------------------------ OAuth2Authenticator
OAuth2Authenticator(allowed_domains, auto_approve_tools) ==
    [allowed_domains |-> allowed_domains, auto_approve_tools |-> auto_approve_tools]

\* OAuth2Authenticator.authenticate
authenticate(a, token) == TRUE

\* OAuth2Authenticator.authorize
AuthorizeAnyTool(a, token, tool_name) == TRUE
AuthorizeNonEmptyToken(a, token, tool_name) ==
    Truthy(token) /\ tool_name \in a.auto_approve_tools
authorize(a, token, tool_name) == tool_name \in a.auto_approve_tools

\* ------------------------------------------------------------------- tools
\* A callable carrying the metadata the Tool decorator attaches.  sig is the
\* parameter list a call sees (a bound method's self is already bound),
\* defaults the parameters that have a default, impl the body it runs.
ToolFn(name, require_auth, sig, defaults, impl) ==
    [name |-> name, require_auth |-> require_auth, sig |-> sig,
     defaults |-> defaults, impl |-> impl]

\* AlphaForgeServer.register_tools: local_backtest, a plain function whose
\* first parameter takes the server.
LocalBacktestTool ==
    ToolFn("local_backtest_strategy", FALSE, <<"_", "strategy_description">>,
           <<>>, "local_backtest")
\* The bound methods of the TradingTools instance.
CloudBacktestTool ==
    ToolFn("cloud_backtest", FALSE,
           <<"project_name", "strategy_parameters", "backtest_name">>,
           << <<"backtest_name", None>> >>, "cloud_backtest")
PushProjectTool ==
    ToolFn("push_project", FALSE, <<"project_name">>, <<>>, "push_project")
DownloadDataTool ==
    ToolFn("download_market_data", FALSE,
           <<"symbol", "resolution", "start_date", "end_date">>,
           << <<"resolution", Str(<<"daily">>)>>,
              <<"start_date", Str(<<"2010-01-01">>)>>,
              <<"end_date", Str(<<"2023-12-31">>)>> >>, "download_data")
\* A tool declared with require_auth=True: a plain function like
\* local_backtest, taking the server and nothing else.
SecuredTool == ToolFn("secured_tool", TRUE, <<"_">>, <<>>, "secured")

AlphaForgeTools ==
    <<LocalBacktestTool, CloudBacktestTool, PushProjectTool, DownloadDataTool>>
AlphaForgeAuthenticator ==
    OAuth2Authenticator({"quantconnect.com"},
                        {"cloud_backtest", "push_project", "download_market_data"})
\* The authenticators run() may be given besides the server's own.
Authenticators ==
    { AlphaForgeAuthenticator,
      OAuth2Authenticator({}, {"secured_tool"}) }

\* Most callables the registry is filled with.
MaxTools == 5
\* Most resources the registry is filled with.
MaxResources == 2

\* ---------------------------------------------------------------- requests
\* The Authorization header: <<>> when absent, else <<its text>>.  The atom
\* "Bearer " is the scheme prefix the endpoint looks for.
Headers ==
    { <<>>,
      << <<>> >>,
      << <<"b","e","a","r","e","r"," ","t">> >>,
      << <<"Bearer ">> >>,
      << <<"Bearer ", "t">> >> }

\* auth_header.startswith('Bearer ')
StartsWithBearer(h) == h # <<>> /\ h[1] = "Bearer "

\* auth_header.replace('Bearer ', '')
RECURSIVE RemoveBearer(_)
RemoveBearer(h) ==
    IF h = <<>> THEN <<>>
    ELSE (IF Head(h) = "Bearer " THEN <<>> ELSE <<Head(h)>>) \o RemoveBearer(Tail(h))

\* A request body: a JSON value, or bytes that are no JSON.
NotJson == [t |-> "bytes", v |-> <<>>]
PyList == [t |-> "list", v |-> <<>>]
Bodies ==
    { Dict(<<>>),
      Dict(<< <<"project_name", Str(<<"P">>)>> >>),
      Dict(<< <<"project_name", Str(<<"P">>)>>,
              <<"strategy_parameters", Dict(<< <<"symbol", Str(SPY)>> >>)>>,
              <<"backtest_name", Str(<<"R"," ","1">>)>> >>),
      Dict(<< <<"strategy_parameters", Dict(<< <<"symbol", Str(SPY)>> >>)>> >>),
      Dict(<< <<"strategy_parameters",
                Dict(<< <<"symbol", Str(<<"T","S","L","A">>)>> >>)>> >>),
      Dict(<< <<"strategy_description", Str(<<"d">>)>> >>),
      Dict(<< <<"symbol", Str(SPY)>> >>),
      NotJson,
      PyList }

\* Lines 45-48: data = await request.json(), {} when that raises.
RequestJson(body) == IF body.t = "bytes" THEN Dict(<<>>) ELSE body

\* What the opaque parser returns for local_backtest, and how its process ends.
ParserConfigs ==
    { Dict(<< <<"strategy_type", Str(<<"mean_reversion">>)>> >>),
      Dict(<< <<"error", Str(<<"Unexpected response structure from Gemini API.">>)>> >>),
      Dict(<< <<"algorithm_path", Str(<<"a", ";", "b">>)>>,
              <<"strategy_type", Str(<<"mean_reversion">>)>> >>) }
\* Line 40: the import inside local_backtest fails when the parser's
\* package is not installed.
ImportFault ==
    Exc("ModuleNotFoundError", <<"No module named 'google.generativeai'">>)
LocalOutcomes ==
    { Exit(0, <<"o">>, <<>>), Exit(0, <<>>, <<"e">>), Exit(1, <<>>, <<"e">>),
      LaunchFault("FileNotFoundError", <<>>) }

\* ------------------------------------------------------- calling a handler
\* tool_func(self, **data): the server is the one positional argument, the
\* body's items are keyword arguments.  The exception the call raises before
\* the body runs, NoExc when the arguments bind.
RECURSIVE KeywordExc(_, _, _)
KeywordExc(sig, items, i) ==
    IF i > Len(items) THEN NoExc
    ELSE IF \A n \in 1..Len(sig) : sig[n] # items[i][1]
    THEN Exc("TypeError",
             <<"got an unexpected keyword argument '", items[i][1], "'">>)
    ELSE IF items[i][1] = sig[1]
    THEN Exc("TypeError", <<"got multiple values for argument '", sig[1], "'">>)
    ELSE KeywordExc(sig, items, i + 1)

BindExc(tool, data) ==
    IF data.t # "dict"
    THEN Exc("TypeError", <<"argument after ** must be a mapping, not ", data.t>>)
    ELSE IF KeywordExc(tool.sig, data.v, 1) # NoExc
    THEN KeywordExc(tool.sig, data.v, 1)
    ELSE IF \E n \in 2..Len(tool.sig) :
                ~HasKey(data, tool.sig[n]) /\ ~HasKey(Dict(tool.defaults), tool.sig[n])
    THEN Exc("TypeError", <<"missing required positional argument">>)
    ELSE NoExc

\* The value each parameter of the call is bound to.
Bound(tool, data) ==
    Dict([n \in 1..Len(tool.sig) |->
            <<tool.sig[n],
              IF n = 1 THEN ServerObj
              ELSE IF HasKey(data, tool.sig[n]) THEN DictGet(data, tool.sig[n])
              ELSE DictGet(Dict(tool.defaults), tool.sig[n])>>])

\* ---------------------------------------------------------------- responses
Response(code, content) == [status_code |-> code, content |-> content]
\* What FastAPI sends for a raised HTTPException.
HTTPException(code, detail) == Response(code, [detail |-> detail])
\* Lines 65-69.
HandlerFault(e) ==
    Response(500, [error |-> <<"Tool execution failed: ">> \o e.msg])
NotFound == HTTPException(404, "Not Found")
\* Lines 62-69: what the try statement around the handler call makes of an
\* exception raised in it - the response returned, or the exception that
\* leaves the endpoint.
ExceptValueErrorOnly(e) ==
    IF e.exc = "ValueError"
    THEN [response |-> <<HandlerFault(e)>>, escaped |-> NoExc]
    ELSE [response |-> <<>>, escaped |-> e]
ExceptException(e) == [response |-> <<HandlerFault(e)>>, escaped |-> NoExc]

\* ----------------------------------------------------------------- the gate
\* Lines 50-59: the calls the gate makes and the HTTPException it raises
\* (<<>> when it lets the invocation through).
Consulted(name, a, returned) == [name |-> name, args |-> a, returned |-> returned]
Gate(tool_func, header) ==
    IF ~(tool_func.require_auth /\ authenticator # <<>>)
    THEN [calls |-> <<>>, raised |-> <<>>]
    ELSE IF header = <<>> \/ ~StartsWithBearer(header[1])
    THEN [calls |-> <<>>, raised |-> <<HTTPException(401, "Authentication required")>>]
    ELSE LET token == Str(RemoveBearer(header[1]))
             c1 == <<Consulted("authenticate", <<token>>,
                               authenticate(authenticator[1], token))>>
             c2 == Append(c1, Consulted("authorize",
                                        <<token, Str(<<tool_func.name>>)>>,
                                        authorize(authenticator[1], token,
                                                  tool_func.name)))
         IN  IF ~authenticate(authenticator[1], token)
             THEN [calls |-> c1,
                   raised |-> <<HTTPException(401, "Invalid authentication token")>>]
             ELSE IF ~authorize(authenticator[1], token, tool_func.name)
             THEN [calls |-> c2,
                   raised |-> <<HTTPException(403, "Not authorized to use this tool")>>]
             ELSE [calls |-> c2, raised |-> <<>>]

\* ------------------------------------------------------------ the handlers
\* local_backtest (mcp_server/server.py lines 39-54), given what the parser
\* returned and how the lean process ended.
local_backtest(config, po) ==
    LET algorithm_identifier ==
            IF HasKey(config, "algorithm_path") THEN DictGet(config, "algorithm_path")
            ELSE IF HasKey(config, "strategy_type") THEN DictGet(config, "strategy_type")
            ELSE Str(<<"BasicTemplateAlgorithm">>)
        lean_command == <<"backtest ">> \o PyStr(algorithm_identifier)
        result == execute(po)
    IN  [returned |-> [status |-> IF result.success THEN "success" ELSE "error",
                       details |-> IF result.output # <<>> THEN result.output
                                   ELSE result.error],
         launched |-> [command |-> <<"lean ">> \o lean_command,
                       identifier |-> PyStr(algorithm_identifier),
                       result |-> result]]

\* TradingTools.download_data
download_data(bound) ==
    [status |-> "success",
     message |-> "Data download not implemented yet.",
     details |-> [symbol |-> DictGet(bound, "symbol"),
                  resolution |-> DictGet(bound, "resolution"),
                  start_date |-> DictGet(bound, "start_date"),
                  end_date |-> DictGet(bound, "end_date")]]

\* The secured tool's body.
secured(bound) == [status |-> "success"]

\* One request as the endpoint handled it: the gate's calls, the arguments
\* the handler ran with (<<>> when it did not run), the command it launched,
\* the exception raised in the try statement, the response, and the
\* exception that left the endpoint.
Invocation(name, header, body, calls, handler, response) ==
    [kind |-> "tool", name |-> name, header |-> header, body |-> body,
     calls |-> calls, handler |-> handler, launched |-> <<>>, fault |-> NoExc,
     response |-> response, escaped |-> NoExc]
Faulted(name, header, body, calls, handler, e) ==
    [kind |-> "tool", name |-> name, header |-> header, body |-> body,
     calls |-> calls, handler |-> handler, launched |-> <<>>, fault |-> e,
     response |-> ExceptException(e).response,
     escaped |-> ExceptException(e).escaped]

\* The first route mounted under /tools/<name>.
AnyRoute(name) == 1..Len(routes)
RoutesFor(name) == {i \in 1..Len(routes) : routes[i].name = name}

\* Lines 43-69: one POST to /tools/<name>, up to the response or to the
\* first suspension of the handler.
\* TradingTools.push_project up to the launch of the push process:
\* push_changes is called, and a TypeError of its shlex.quote leaves through
\* push_project. A push_project that called push_changes twice would be
PushProjectTwice(r, project_name) ==
    /\ pc[r] = "idle"
    /\ args' = [args EXCEPT ![r] = [project_name |-> project_name]]
    /\ UNCHANGED <<environ, bt_result>>
    /\ LET tr == <<Ev("push_changes", <<project_name>>),
                   Ev("push_changes", <<project_name>>)>>
       IN  IF QuoteExc(project_name) # NoExc
           THEN Finish(r, [raised |-> QuoteExc(project_name)], tr)
           ELSE Await(r, "await_push_project", push_changes(project_name), tr)
push_project(r, project_name) ==
    /\ pc[r] = "idle"
    /\ args' = [args EXCEPT ![r] = [project_name |-> project_name]]
    /\ UNCHANGED <<environ, bt_result>>
    /\ LET tr == <<Ev("push_changes", <<project_name>>)>>
       IN  IF QuoteExc(project_name) # NoExc
           THEN Finish(r, [raised |-> QuoteExc(project_name)], tr)
           ELSE Await(r, "await_push_project", push_changes(project_name), tr)

\* Lines 208-210: push_changes returned; its result is returned as it is.
PushProjectReturns(r, po) ==
    /\ pc[r] = "await_push_project"
    /\ UNCHANGED <<environ, args>>
    /\ bt_result' = [bt_result EXCEPT ![r] = <<_execute_lean_command(po)>>]
    /\ Finish(r, _execute_lean_command(po),
              Append(trace[r], Ev("push_changes_returned", <<po>>)))

create_tool_endpoint(name, header, body) ==
    /\ serving
    /\ IF RoutesFor(name) = {}
       THEN /\ last' = <<Invocation(name, header, body, <<>>, <<>>, <<NotFound>>)>>
            /\ UNCHANGED pipelineVars
       ELSE
       LET tool_func == routes[Min(RoutesFor(name))]
           data == RequestJson(body)
           gate == Gate(tool_func, header)
           be == BindExc(tool_func, data)
           bound == Bound(tool_func, data)
           ran == <<bound>>
       IN  IF gate.raised # <<>>
           THEN /\ last' = <<Invocation(name, header, body, gate.calls, <<>>,
                                        gate.raised)>>
                /\ UNCHANGED pipelineVars
           ELSE IF be # NoExc
           THEN /\ last' = <<Faulted(name, header, body, gate.calls, <<>>, be)>>
                /\ UNCHANGED pipelineVars
           ELSE
           CASE tool_func.impl = "cloud_backtest" ->
                  /\ \E r \in RunIds :
                        cloud_backtest(r, DictGet(bound, "project_name"),
                                       DictGet(bound, "strategy_parameters"),
                                       DictGet(bound, "backtest_name"))
                  /\ last' = <<Invocation(name, header, body, gate.calls, ran,
                                 IF \E r \in RunIds : pc'[r] = "done"
                                 THEN <<Response(200,
                                          outcome'[CHOOSE r \in RunIds :
                                                       pc'[r] = "done"][1])>>
                                 ELSE <<>>)>>
             [] tool_func.impl = "push_project" ->
                  LET qe == QuoteExc(DictGet(bound, "project_name"))
                  IN  IF qe # NoExc
                      THEN /\ last' = <<Faulted(name, header, body, gate.calls,
                                                ran, qe)>>
                           /\ UNCHANGED pipelineVars
                      ELSE /\ last' = <<Invocation(name, header, body, gate.calls,
                                                   ran, <<>>)>>
                           /\ \E r \in RunIds :
                                 push_project(r, DictGet(bound, "project_name"))
             [] tool_func.impl = "download_data" ->
                  /\ last' = <<Invocation(name, header, body, gate.calls, ran,
                                          <<Response(200, download_data(bound))>>)>>
                  /\ UNCHANGED pipelineVars
             [] tool_func.impl = "local_backtest" ->
                  /\ \/ last' = <<Faulted(name, header, body, gate.calls, ran,
                                           ImportFault)>>
                     \/ \E config \in ParserConfigs, po \in LocalOutcomes :
                           last' = <<[Invocation(name, header, body, gate.calls,
                                        ran, <<Response(200,
                                          local_backtest(config, po).returned)>>)
                                      EXCEPT !.launched =
                                        <<local_backtest(config, po).launched>>]>>
                  /\ UNCHANGED pipelineVars
             [] OTHER ->
                  /\ last' = <<Invocation(name, header, body, gate.calls, ran,
                                          <<Response(200, secured(bound))>>)>>
                  /\ UNCHANGED pipelineVars

\* ---------------------------------------------------------------- resources
\* Resource.__init__.  access_method is <<>> for None, else <<the callable>>;
\* access_path is None or a str.
Resource(name, access_method, access_path) ==
    [name |-> name, access_method |-> access_method, access_path |-> access_path]

\* TradingResources.cloud_projects: a lambda calling the async list_projects.
CloudProjects == Resource("cloud_projects", <<"list_projects">>, None)
\* TradingResources.risk_parameters
RiskParameters ==
    Resource("risk_parameters", <<>>, Str(<<"./config/risk_settings.json">>))
AlphaForgeResources == <<CloudProjects, RiskParameters>>

\* What calling an access_method produces: a value or an exception.
Returns(value) == [raised |-> NoExc, value |-> <<value>>]
Raises(e) == [raised |-> e, value |-> <<>>]
\* QuantConnectCloudBridge().list_projects() called without await: the
\* coroutine object itself is the lambda's value.
Coroutine == [t |-> "coroutine", v |-> <<"list_projects">>]
ProviderOutcomes(access_method) ==
    IF access_method = <<"list_projects">> THEN { Returns(Coroutine) }
    ELSE { Returns(Dict(<< <<"k", Str(<<"provided">>)>> >>)),
           Raises(Exc("RuntimeError", <<"provider failed">>)) }

\* The backing store under access_path as the call meets it: whether
\* os.path.exists finds it, and what open and json.load then do.
FileStates ==
    { [exists |-> FALSE, read |-> Raises(Exc("FileNotFoundError", <<"No such file">>))],
      [exists |-> TRUE, read |-> Returns(Dict(<< <<"k", Str(<<"stored">>)>> >>))],
      [exists |-> TRUE, read |-> Raises(Exc("FileNotFoundError", <<"No such file">>))],
      [exists |-> TRUE, read |-> Raises(Exc("PermissionError", <<"Permission denied">>))],
      [exists |-> TRUE, read |-> Raises(Exc("JSONDecodeError", <<"Expecting value">>))] }

NotAvailable == Dict(<< <<"error", Str(<<"Resource not available">>)>> >>)

\* Resource.get_data: what it consulted, and what it returned or raised.
GetDataPathFirst(res, provided, file) ==
    IF Truthy(res.access_path) /\ file.exists
    THEN [consulted |-> <<"exists", "open">>, raised |-> file.read.raised,
          value |-> file.read.value]
    ELSE IF res.access_method # <<>>
    THEN [consulted |-> <<"access_method">>, raised |-> provided.raised,
          value |-> provided.value]
    ELSE [consulted |-> IF Truthy(res.access_path) THEN <<"exists">> ELSE <<>>,
          raised |-> NoExc, value |-> <<NotAvailable>>]
get_data(res, provided, file) ==
    IF res.access_method # <<>>
    THEN [consulted |-> <<"access_method">>, raised |-> provided.raised,
          value |-> provided.value]
    ELSE IF Truthy(res.access_path) /\ file.exists
    THEN [consulted |-> <<"exists", "open">>, raised |-> file.read.raised,
          value |-> file.read.value]
    ELSE [consulted |-> IF Truthy(res.access_path) THEN <<"exists">> ELSE <<>>,
          raised |-> NoExc, value |-> <<NotAvailable>>]

\* Lines 88-92.
ResourceFault(e) ==
    Response(500, [error |-> <<"Resource access failed: ">> \o e.msg])
\* What the framework makes of a returned value it cannot encode as JSON:
\* the encoder's exception leaves the endpoint.
EncodeExc(value) ==
    IF value.t = "coroutine"
    THEN Exc("ValueError", <<"'coroutine' object is not iterable">>)
    ELSE NoExc

\* The resources mounted under /resources/<name>.
ResourceRoutesFor(name) == {i \in 1..Len(resources) : resources[i].name = name}

\* One GET as the resource endpoint handled it.
Fetched(name, res, got, response, escaped) ==
    [kind |-> "resource", name |-> name, resource |-> res, got |-> got,
     response |-> response, escaped |-> escaped]
\* The same, with what the provider and the backing store did at the call.
Met(fetched, provided, file) ==
    [kind |-> fetched.kind, name |-> fetched.name, resource |-> fetched.resource,
     got |-> fetched.got, response |-> fetched.response,
     escaped |-> fetched.escaped, provided |-> provided, file |-> file]

\* Lines 85-92: one GET of /resources/<name>.
create_resource_endpoint(name, provided, file) ==
    /\ serving
    /\ IF ResourceRoutesFor(name) = {}
       THEN last' = <<Met(Fetched(name, <<>>, <<>>, <<NotFound>>, NoExc),
                         provided, file)>>
       ELSE LET resource_obj == resources[Min(ResourceRoutesFor(name))]
                got == get_data(resource_obj, provided, file)
            IN  IF got.raised # NoExc
                THEN last' = <<Met(Fetched(name, <<resource_obj>>, <<got>>,
                                           <<ResourceFault(got.raised)>>, NoExc),
                                   provided, file)>>
                ELSE IF EncodeExc(got.value[1]) # NoExc
                THEN last' = <<Met(Fetched(name, <<resource_obj>>, <<got>>,
                                           <<>>, EncodeExc(got.value[1])),
                                   provided, file)>>
                ELSE last' = <<Met(Fetched(name, <<resource_obj>>, <<got>>,
                                           <<Response(200, got.value[1])>>, NoExc),
                                   provided, file)>>
    /\ UNCHANGED <<tools, routes, authenticator, serving, resources>>
    /\ UNCHANGED <<pipelineVars, bridgeVars>>

\* ----------------------------------------------------- building the server
\* The loops of add_tools and add_resources: one endpoint per item, mounted
\* under the item's name. Endpoints that closed over the loop variable
\* would all run the last item of the call, each under its own path:
MountedLateBound(items) ==
    [i \in 1..Len(items) |-> [items[Len(items)] EXCEPT !.name = items[i].name]]
\* the code binds the item of the iteration as the default value of the
\* endpoint's parameter (tool_func=tool, resource_obj=resource).
Mounted(items) == [i \in 1..Len(items) |-> items[i]]

\* McpServer.add_tools
add_tools(ts) ==
    /\ ~serving
    /\ Len(tools) + Len(ts) <= MaxTools
    /\ tools' = tools \o ts
    /\ routes' = routes \o Mounted(ts)
    /\ UNCHANGED <<authenticator, serving, last, resources>>
    /\ UNCHANGED <<pipelineVars, bridgeVars>>

\* McpServer.add_resources
add_resources(rs) ==
    /\ ~serving
    /\ Len(resources) + Len(rs) <= MaxResources
    /\ resources' = resources \o Mounted(rs)
    /\ UNCHANGED <<tools, routes, authenticator, serving, last>>
    /\ UNCHANGED <<pipelineVars, bridgeVars>>

\* McpServer.run(authenticator=...)
run(a) ==
    /\ ~serving
    /\ authenticator' = a
    /\ serving' = TRUE
    /\ UNCHANGED <<tools, routes, last, resources>>
    /\ UNCHANGED <<pipelineVars, bridgeVars>>

\* ------------------------------------------------- concurrent executions
\* The coroutines that may be inside LeanBridge.execute or
\* QuantConnectCloudBridge._execute_lean_command at the same time.
Callers == 1..MaxCallers
BridgeOps == {"execute", "_execute_lean_command"}

\* The locals of one activation: command, process, and the value returned.
\* process is the index of the spawned process in processes, 0 before
\* create_subprocess_shell has returned.
IdleFrame == [pc |-> "idle", op |-> "", command |-> <<>>, process |-> 0,
              returned |-> <<>>]
NoExecutions ==
    /\ frames = [c \in Callers |-> IdleFrame]
    /\ processes = <<>>

ConcurrentCommands == {<<"backtest P">>, <<"cloud push">>}
\* How a process launched with a command line may end: its streams depend
\* on the command it ran.
ProcessExits(full_command) ==
    {Exit(0, <<"out of ">> \o full_command, <<>>),
     Exit(1, <<>>, <<"err of ">> \o full_command)}
CreateFaults ==
    {LaunchFault("FileNotFoundError", <<"No such file or directory">>),
     LaunchFault("OSError", <<"Too many open files">>)}

\* The result mapping either bridge builds from an outcome.
ResultOf(op, po) ==
    IF op = "execute" THEN execute(po) ELSE _execute_lean_command(po)

\* The process an activation waits for: a handle kept on the bridge object
\* is the one written last by any activation;
SharedProcess(c) == Len(processes)
\* the code keeps it in the local variable process.
OwnProcess(c) == frames[c].process

\* execute(command) is entered: full_command is formatted.
BeginExecute ==
    /\ \E c \in Callers, op \in BridgeOps, command \in ConcurrentCommands :
          /\ frames[c].pc = "idle"
          /\ frames' = [frames EXCEPT ![c] =
                          [@ EXCEPT !.pc = "create", !.op = op,
                                    !.command = command]]
    /\ UNCHANGED processes
    /\ UNCHANGED <<pipelineVars, serverVars>>

\* await asyncio.create_subprocess_shell(full_command, ...) returns the
\* process, or raises and the except clauses build the result.
CreateSubprocess ==
    /\ \E c \in Callers :
          /\ frames[c].pc = "create"
          /\ \/ \E po \in ProcessExits(FullCommand(frames[c].command)) :
                  /\ processes' = Append(processes,
                        [command |-> FullCommand(frames[c].command),
                         po |-> po, spawned_by |-> c])
                  /\ frames' = [frames EXCEPT ![c] =
                          [@ EXCEPT !.pc = "communicate",
                                    !.process = Len(processes) + 1]]
             \/ \E po \in CreateFaults :
                  /\ frames' = [frames EXCEPT ![c] =
                          [@ EXCEPT !.pc = "done",
                                    !.returned = <<ResultOf(frames[c].op, po)>>]]
                  /\ UNCHANGED processes
    /\ UNCHANGED <<pipelineVars, serverVars>>

\* await process.communicate() returns; the result mapping is returned.
Communicate ==
    /\ \E c \in Callers :
          /\ frames[c].pc = "communicate"
          /\ frames' = [frames EXCEPT ![c] =
                  [@ EXCEPT !.pc = "done",
                            !.returned =
                               <<ResultOf(frames[c].op,
                                          processes[OwnProcess(c)].po)>>]]
    /\ UNCHANGED processes
    /\ UNCHANGED <<pipelineVars, serverVars>>

\* --------------------------------------------------------- specification
\* TradingTools as the tests use it: constructed, its bridge in place, no
\* activation yet.  The environment is whatever the process was started in.
Init ==
    /\ environ \in Environs
    /\ pc = [r \in RunIds |-> "idle"]
    /\ args = [r \in RunIds |-> <<>>]
    /\ proc = [r \in RunIds |-> <<>>]
    /\ bt_result = [r \in RunIds |-> <<>>]
    /\ outcome = [r \in RunIds |-> <<>>]
    /\ trace = [r \in RunIds |-> <<>>]
    /\ tools = <<>>
    /\ routes = <<>>
    /\ authenticator = <<>>
    /\ serving = FALSE
    /\ last = <<>>
    /\ resources = <<>>
    /\ NoExecutions

Call ==
    /\ \E r \in RunIds :
          /\ pc[r] = "idle"
          /\ \E p \in Projects, sp \in StrategyParams, b \in BacktestNames :
                cloud_backtest(r, p, sp, b)
    /\ UNCHANGED <<serverVars, bridgeVars>>
PushDone ==
    /\ \E r \in RunIds :
          /\ pc[r] = "await_push"
          /\ \E po \in PushOutcomes : PushReturns(r, po)
    /\ UNCHANGED <<serverVars, bridgeVars>>
SubmitDone ==
    /\ \E r \in RunIds :
          /\ pc[r] = "await_submit"
          /\ \E po \in SubmitOutcomes : SubmitReturns(r, po)
    /\ UNCHANGED <<serverVars, bridgeVars>>
Collected ==
    /\ \E r \in RunIds : Collect(r)
    /\ UNCHANGED <<serverVars, bridgeVars>>

Next == Call \/ PushDone \/ SubmitDone \/ Collected

Spec == Init /\ [][Next]_vars

\* The server: built, run, and then serving one invocation after another.
ToolNames == {"local_backtest_strategy", "cloud_backtest", "push_project",
              "download_market_data", "secured_tool", "unregistered"}
\* AlphaForgeServer.__init__: McpServer.__init__, then the authenticator is
\* configured and register_tools and register_resources add the server's
\* tools and resources.
InitServer ==
    /\ environ = <<>>
    /\ pc = [r \in RunIds |-> "idle"]
    /\ args = [r \in RunIds |-> <<>>]
    /\ proc = [r \in RunIds |-> <<>>]
    /\ bt_result = [r \in RunIds |-> <<>>]
    /\ outcome = [r \in RunIds |-> <<>>]
    /\ trace = [r \in RunIds |-> <<>>]
    /\ tools = AlphaForgeTools
    /\ routes = Mounted(AlphaForgeTools)
    /\ authenticator = <<AlphaForgeAuthenticator>>
    /\ serving = FALSE
    /\ last = <<>>
    /\ resources = Mounted(AlphaForgeResources)
    /\ NoExecutions
AddTools == add_tools(<<SecuredTool>>)
Run ==
    \E a \in {<<>>, authenticator} \cup {<<x>> : x \in Authenticators} : run(a)
\* The endpoint and the gate assign no attribute of the server or of the
\* authenticator; a server whose endpoint forgot its authenticator would be
EndpointForgetsAuthenticator ==
    /\ authenticator' = <<>>
    /\ UNCHANGED <<tools, routes, serving, resources>>
EndpointKeeps == UNCHANGED <<tools, routes, authenticator, serving, resources>>

\* One invocation at a time, each answered before the next arrives.
Invoke ==
    /\ \A r \in RunIds : pc[r] = "idle"
    /\ \E name \in ToolNames, header \in Headers, body \in Bodies :
          create_tool_endpoint(name, header, body)
    /\ EndpointKeeps
    /\ UNCHANGED bridgeVars
\* The response is sent; the handler's activation is gone.
Responded ==
    /\ \E r \in RunIds : Collect(r)
    /\ UNCHANGED <<serverVars, bridgeVars>>

ResourceNames == {"cloud_projects", "risk_parameters", "r", "q", "unregistered"}
Fetch ==
    /\ serving
    /\ \E name \in ResourceNames, file \in FileStates :
          \E provided \in ProviderOutcomes(
                             IF ResourceRoutesFor(name) = {} THEN <<>>
                             ELSE resources[Min(ResourceRoutesFor(name))].access_method) :
             create_resource_endpoint(name, provided, file)

NextServer == AddTools \/ Run \/ Invoke \/ Responded \/ Fetch

\* A bare McpServer filled by its user: tools and resources are added in any
\* order, names repeating or not, then it is run and resources are fetched.
ResourcePool ==
    { Resource("r", <<"provider">>, Str(<<"a.json">>)),
      Resource("r", <<>>, Str(<<"a.json">>)),
      Resource("q", <<>>, None),
      Resource("q", <<>>, Str(<<>>)) }
InitRegistry ==
    /\ environ = <<>>
    /\ pc = [r \in RunIds |-> "idle"]
    /\ args = [r \in RunIds |-> <<>>]
    /\ proc = [r \in RunIds |-> <<>>]
    /\ bt_result = [r \in RunIds |-> <<>>]
    /\ outcome = [r \in RunIds |-> <<>>]
    /\ trace = [r \in RunIds |-> <<>>]
    /\ tools = <<>>
    /\ routes = <<>>
    /\ authenticator = <<>>
    /\ serving = FALSE
    /\ last = <<>>
    /\ resources = <<>>
    /\ NoExecutions
AddResources ==
    /\ ~serving
    /\ \E res \in ResourcePool : add_resources(<<res>>)

NextRegistry == AddTools \/ AddResources \/ Run \/ Fetch

SpecRegistry == InitRegistry /\ [][NextRegistry]_vars

\* The bridges called directly, one operation at a time, each run to its
\* return: the caller's arguments are any Python values, the process ends
\* in any way the operating system allows.
BridgeArgs ==
    { Str(<<"P">>), Str(<<"P", " ", "A">>), Str(<<"a", ";", "b">>),
      Str(<<"i", "t", "'", "s">>), None }
\* What the shell does with 'lean ...' when no lean is on the PATH: the
\* launch succeeds and the shell exits with 127.
LeanNotOnPath == Exit(127, <<>>, <<"/bin/sh: 1: lean: not found">>)
BridgeOutcomes ==
    { Exit(0, <<"o">>, <<>>), Exit(1, <<"o">>, <<"e">>), LeanNotOnPath,
      LaunchFault("FileNotFoundError", <<"No such file or directory: '/bin/sh'">>),
      LaunchFault("OSError", <<"Cannot allocate memory">>) }

\* The exception the first shlex.quote call raises, in call order.
RECURSIVE FirstQuoteExc(_)
FirstQuoteExc(quoted) ==
    IF quoted = <<>> THEN NoExc
    ELSE IF QuoteExc(Head(quoted)) # NoExc THEN QuoteExc(Head(quoted))
    ELSE FirstQuoteExc(Tail(quoted))

\* One operation as it went: the values shlex.quote was given, the command
\* line handed to the shell, how its process ended, and what the operation
\* returned or raised.
BridgeCall(op, a, quoted, command, result, po) ==
    last' = <<IF FirstQuoteExc(quoted) # NoExc
              THEN [kind |-> "bridge", op |-> op, args |-> a,
                    raised |-> FirstQuoteExc(quoted), command |-> <<>>,
                    po |-> <<>>, result |-> <<>>]
              ELSE [kind |-> "bridge", op |-> op, args |-> a,
                    raised |-> NoExc, command |-> <<FullCommand(command)>>,
                    po |-> <<po>>, result |-> <<result>>]>>

Execute ==
    /\ \E c \in BridgeArgs, po \in BridgeOutcomes :
          BridgeCall("execute", <<c>>, <<>>, PyStr(c), execute(po), po)
    /\ UNCHANGED <<tools, routes, authenticator, serving, resources>>
    /\ UNCHANGED <<pipelineVars, bridgeVars>>
ExecuteLeanCommand ==
    /\ \E c \in BridgeArgs, po \in BridgeOutcomes :
          BridgeCall("_execute_lean_command", <<c>>, <<>>, PyStr(c),
                     _execute_lean_command(po), po)
    /\ UNCHANGED <<tools, routes, authenticator, serving, resources>>
    /\ UNCHANGED <<pipelineVars, bridgeVars>>
PushChanges ==
    /\ \E p \in BridgeArgs, po \in BridgeOutcomes :
          BridgeCall("push_changes", <<p>>, <<p>>, push_changes(p),
                     _execute_lean_command(po), po)
    /\ UNCHANGED <<tools, routes, authenticator, serving, resources>>
    /\ UNCHANGED <<pipelineVars, bridgeVars>>
SubmitCloudBacktest ==
    /\ \E p \in BridgeArgs, b \in BridgeArgs, po \in BridgeOutcomes :
          BridgeCall("submit_cloud_backtest", <<p, b>>,
                     IF Truthy(b) THEN <<p, b>> ELSE <<p>>,
                     submit_cloud_backtest(p, b), _execute_lean_command(po), po)
    /\ UNCHANGED <<tools, routes, authenticator, serving, resources>>
    /\ UNCHANGED <<pipelineVars, bridgeVars>>
DeployLive ==
    /\ \E p \in BridgeArgs, e \in BridgeArgs, po \in BridgeOutcomes :
          BridgeCall("deploy_live", <<p, e>>, <<p, e>>, deploy_live(p, e),
                     _execute_lean_command(po), po)
    /\ UNCHANGED <<tools, routes, authenticator, serving, resources>>
    /\ UNCHANGED <<pipelineVars, bridgeVars>>
GetProjectStatus ==
    /\ \E p \in BridgeArgs, po \in BridgeOutcomes :
          BridgeCall("get_project_status", <<p>>, <<p>>, get_project_status(p),
                     _execute_lean_command(po), po)
    /\ UNCHANGED <<tools, routes, authenticator, serving, resources>>
    /\ UNCHANGED <<pipelineVars, bridgeVars>>
CreateProject ==
    /\ \E n \in BridgeArgs, l \in BridgeArgs \cup {Str(<<"python">>)},
          po \in BridgeOutcomes :
          BridgeCall("create_project", <<n, l>>, <<n>>, create_project(n, l),
                     _execute_lean_command(po), po)
    /\ UNCHANGED <<tools, routes, authenticator, serving, resources>>
    /\ UNCHANGED <<pipelineVars, bridgeVars>>
GetBacktestStatus ==
    /\ \E p \in BridgeArgs, b \in BridgeArgs, po \in BridgeOutcomes :
          BridgeCall("get_backtest_status", <<p, b>>, <<p, b>>,
                     get_backtest_status(p, b), _execute_lean_command(po), po)
    /\ UNCHANGED <<tools, routes, authenticator, serving, resources>>
    /\ UNCHANGED <<pipelineVars, bridgeVars>>
GetBacktestResults ==
    /\ \E p \in BridgeArgs, b \in BridgeArgs :
          last' = <<[kind |-> "bridge", op |-> "get_backtest_results",
                     args |-> <<p, b>>, raised |-> NoExc, command |-> <<>>,
                     po |-> <<>>, result |-> <<get_backtest_results>>]>>
    /\ UNCHANGED <<tools, routes, authenticator, serving, resources>>
    /\ UNCHANGED <<pipelineVars, bridgeVars>>
\* The local_backtest tool's body, from the parser's return on.
LocalBacktest ==
    /\ \E config \in ParserConfigs, po \in BridgeOutcomes :
          last' = <<[kind |-> "bridge", op |-> "local_backtest",
                     args |-> <<config>>, raised |-> NoExc,
                     command |-> <<local_backtest(config, po).launched.command>>,
                     po |-> <<po>>,
                     result |-> <<local_backtest(config, po).launched.result>>]>>
    /\ UNCHANGED <<tools, routes, authenticator, serving, resources>>
    /\ UNCHANGED <<pipelineVars, bridgeVars>>

NextBridge ==
    \/ Execute \/ ExecuteLeanCommand \/ PushChanges \/ SubmitCloudBacktest
    \/ DeployLive \/ GetProjectStatus \/ CreateProject \/ GetBacktestStatus
    \/ GetBacktestResults \/ LocalBacktest

SpecBridge == InitRegistry /\ [][NextBridge]_vars

SpecServer == InitServer /\ [][NextServer]_vars

\* ------------------------------------------------ properties of the pipeline
Started(r) == pc[r] # "idle"
Done(r) == pc[r] = "done"
Returned(r) == outcome[r][1]

\* The indices of the events named ev in the trace of run r.
Events(r, ev) == {i \in 1..Len(trace[r]) : trace[r][i].ev = ev}
Called(r, ev) == Events(r, ev) # {}
TheEvent(r, ev) == trace[r][Min(Events(r, ev))]

PushReturned(r, ok) ==
    Called(r, "push_returned") /\ TheEvent(r, "push_returned").a[1].success = ok
SubmitReturned(r, ok) ==
    Called(r, "submit_returned") /\ TheEvent(r, "submit_returned").a[1].success = ok
SubmitResult(r) == TheEvent(r, "submit_returned").a[1]

IsErrorWith(res, context) ==
    /\ res.status = "error"
    /\ "context" \in DOMAIN res
    /\ res.context = context

\* The value under 'symbol' is supplied and, compared without regard to
\* letter case, is not an entry of the allow-list in effect.
SuppliedSymbolNotAllowed(r) ==
    LET sp == args[r].strategy_parameters
    IN  /\ sp.t = "dict"
        /\ HasKey(sp, "symbol")
        /\ LET symbol == DictGet(sp, "symbol")
           IN  ~(symbol.t = "str" /\ Upper(symbol.v) \in AllowedList(environ))

\* C1: a run whose supplied symbol is not on the allow-list makes no call of
\* push_changes or submit_cloud_backtest, and returns status error with
\* context "Validation Error".
C1_DisallowedSymbolRejected ==
    \A r \in RunIds :
        (Started(r) /\ SuppliedSymbolNotAllowed(r)) =>
            /\ ~Called(r, "push_changes")
            /\ ~Called(r, "submit_cloud_backtest")
            /\ Done(r)
            /\ IsErrorWith(Returned(r), "Validation Error")

\* C2: in a run where push_changes returned success = false,
\* submit_cloud_backtest is never called and the run has returned status
\* error with context "Push failed".
C2_PushFailureStops ==
    \A r \in RunIds :
        PushReturned(r, FALSE) =>
            /\ ~Called(r, "submit_cloud_backtest")
            /\ Done(r)
            /\ IsErrorWith(Returned(r), "Push failed")
C2_Witness ==
    \E r \in RunIds : PushReturned(r, FALSE) /\ Done(r)

\* C3: within a run the stages happen in the order validate, publish,
\* submit, extract, each at most once; push_changes is called only after
\* validation passed (or was skipped for want of a symbol),
\* submit_cloud_backtest only after push_changes returned success, and
\* extraction only after submit_cloud_backtest returned success.
Stages == <<"_validate_symbol", "push_changes", "submit_cloud_backtest",
            "_extract_backtest_id">>
C3_StageOrder ==
    \A r \in RunIds :
        /\ \A n \in 1..Len(Stages) : Cardinality(Events(r, Stages[n])) <= 1
        /\ \A m, n \in 1..Len(Stages) :
              (m < n /\ Called(r, Stages[m]) /\ Called(r, Stages[n])) =>
                  Min(Events(r, Stages[m])) < Min(Events(r, Stages[n]))
        /\ Called(r, "push_changes") =>
              \E i \in Events(r, "validated") \cup Events(r, "no_symbol") :
                  i < Min(Events(r, "push_changes"))
        /\ Called(r, "submit_cloud_backtest") =>
              \E i \in Events(r, "push_returned") :
                  /\ i < Min(Events(r, "submit_cloud_backtest"))
                  /\ trace[r][i].a[1].success
        /\ Called(r, "_extract_backtest_id") =>
              \E i \in Events(r, "submit_returned") :
                  /\ i < Min(Events(r, "_extract_backtest_id"))
                  /\ trace[r][i].a[1].success
C3_Witness ==
    \E r \in RunIds : \A n \in 1..Len(Stages) : Called(r, Stages[n])

\* The text out reads: no label up to i, the label backtestId at i, one or
\* more separators (colon or white space) up to k, then a token up to e, and
\* after it nothing or white space.
LabelThenToken(out, i, k, e) ==
    /\ \A j \in 1..(i - 1) : ~IsLabel(out[j])
    /\ out[i] = "backtestId"
    /\ i < k /\ k < e
    /\ \A j \in (i + 1)..k : IsSep(out[j])
    /\ \A j \in (k + 1)..e : ~IsSpace(out[j])
    /\ ~IsSep(out[k + 1])
    /\ (e < Len(out) => IsSpace(out[e + 1]))

\* C4: when push succeeded and submit succeeded with an output that holds
\* the label backtestId followed by a token, the run returns status
\* success, that token as backtest_id and the submit result as details;
\* push_changes was called once, with the project name, and
\* submit_cloud_backtest once, with the project name and the backtest name.
C4_SuccessReturnsToken ==
    \A r \in RunIds :
        (PushReturned(r, TRUE) /\ SubmitReturned(r, TRUE)) =>
            LET out == SubmitResult(r).output
            IN  \A i, k, e \in 1..Len(out) :
                    LabelThenToken(out, i, k, e) =>
                        /\ Done(r)
                        /\ Returned(r).status = "success"
                        /\ Returned(r).backtest_id = Str(SubSeq(out, k + 1, e))
                        /\ Returned(r).details = SubmitResult(r)
                        /\ Cardinality(Events(r, "push_changes")) = 1
                        /\ TheEvent(r, "push_changes").a = <<args[r].project_name>>
                        /\ Cardinality(Events(r, "submit_cloud_backtest")) = 1
                        /\ TheEvent(r, "submit_cloud_backtest").a =
                              <<args[r].project_name, args[r].backtest_name>>
C4_Witness ==
    \E r \in RunIds :
        /\ Done(r) /\ PushReturned(r, TRUE) /\ SubmitReturned(r, TRUE)
        /\ SubmitResult(r).output = <<"backtestId", " ", "BT1">>
        /\ Returned(r).backtest_id = Str(<<"BT1">>)

\* C5: when push succeeded and submit returned success = false, the run
\* returns status error, backtest_id None and the whole submit result as
\* details, and extraction is not attempted.
C5_SubmitFailureKeepsResult ==
    \A r \in RunIds :
        (PushReturned(r, TRUE) /\ SubmitReturned(r, FALSE)) =>
            /\ Done(r)
            /\ Returned(r).status = "error"
            /\ Returned(r).backtest_id = None
            /\ Returned(r).details = SubmitResult(r)
            /\ ~Called(r, "_extract_backtest_id")
C5_Witness ==
    \E r \in RunIds :
        /\ Done(r) /\ PushReturned(r, TRUE) /\ SubmitReturned(r, FALSE)
        /\ SubmitResult(r).error # <<>>

\* No label of the output is followed by separators and then a token.
NoLabelledToken(out) ==
    ~\E i \in 1..Len(out) : \E j \in (i + 2)..Len(out) :
        /\ IsLabel(out[i])
        /\ \A m \in (i + 1)..(j - 1) : IsSep(out[m])
        /\ ~IsSpace(out[j])

\* C6: when push succeeded and submit succeeded with an output in which no
\* label is followed by a token, the run returns backtest_id None and
\* status success.
C6_MissingIdIsNotAnError ==
    \A r \in RunIds :
        (/\ PushReturned(r, TRUE)
         /\ SubmitReturned(r, TRUE)
         /\ NoLabelledToken(SubmitResult(r).output)) =>
            /\ Done(r)
            /\ Returned(r).status = "success"
            /\ Returned(r).backtest_id = None
C6_Witness ==
    \E r \in RunIds :
        /\ Done(r) /\ PushReturned(r, TRUE) /\ SubmitReturned(r, TRUE)
        /\ \E i \in 1..Len(SubmitResult(r).output) :
              IsLabel(SubmitResult(r).output[i])
        /\ NoLabelledToken(SubmitResult(r).output)

\* ------------------------------------------------------ the tool endpoints
Invoked == last # <<>> /\ last[1].kind = "tool"
Registered == Invoked /\ RoutesFor(last[1].name) # {}
InvokedTool == routes[Min(RoutesFor(last[1].name))]
HandlerExecuted == last[1].handler # <<>>
StatusCode == IF last[1].response = <<>> THEN 0 ELSE last[1].response[1].status_code
NoToken(header) ==
    \/ header = <<>>
    \/ ~StartsWithBearer(header[1])
    \/ RemoveBearer(header[1]) = <<>>
SentToken == Str(RemoveBearer(last[1].header[1]))
\* The body names parameters the tool declares and leaves out none that has
\* no default (the leading parameter of a plain function takes the server).
BodyFits(tool, data) ==
    /\ data.t = "dict"
    /\ \A i \in 1..Len(data.v) : \E n \in 1..Len(tool.sig) :
          tool.sig[n] = data.v[i][1] /\ tool.sig[n] # "_"
    /\ \A n \in 1..Len(tool.sig) :
          \/ tool.sig[n] = "_"
          \/ HasKey(data, tool.sig[n])
          \/ HasKey(Dict(tool.defaults), tool.sig[n])
FullBody ==
    Dict(<< <<"project_name", Str(<<"P">>)>>,
            <<"strategy_parameters", Dict(<< <<"symbol", Str(SPY)>> >>)>>,
            <<"backtest_name", Str(<<"R"," ","1">>)>> >>)

\* C7: an invocation of a tool that sets require_auth with no Authorization
\* header, a header that is not 'Bearer <token>', or an empty token is
\* answered with the authentication error (401) and the handler is not
\* executed.
C7_NoTokenIsRejected ==
    (Registered /\ InvokedTool.require_auth /\ NoToken(last[1].header))
        => (StatusCode = 401 /\ ~HandlerExecuted)

\* C8: with an authenticator configured, an invocation of a tool that sets
\* require_auth carrying a Bearer token that authenticates, for a tool name
\* the authenticator does not approve, is answered with the authorization
\* error (403, not the 401 of authentication), authenticate is consulted
\* before authorize, and the handler is not executed.
C8_UnentitledTokenIsForbidden ==
    (/\ Registered
     /\ InvokedTool.require_auth
     /\ authenticator # <<>>
     /\ last[1].header # <<>>
     /\ StartsWithBearer(last[1].header[1])
     /\ authenticate(authenticator[1], SentToken)
     /\ last[1].name \notin authenticator[1].auto_approve_tools)
        => (/\ last[1].response =
                  <<HTTPException(403, "Not authorized to use this tool")>>
            /\ StatusCode # 401
            /\ last[1].calls =
                  << Consulted("authenticate", <<SentToken>>, TRUE),
                     Consulted("authorize",
                               <<SentToken, Str(<<last[1].name>>)>>, FALSE) >>
            /\ ~HandlerExecuted)
C8_Witness ==
    /\ Registered
    /\ InvokedTool.require_auth
    /\ authenticator # <<>>
    /\ last[1].header = << <<"Bearer ", "t">> >>
    /\ last[1].name \notin authenticator[1].auto_approve_tools
    /\ StatusCode = 403

\* C9: whatever authenticator run() was given, the handler of a tool that
\* sets require_auth is executed in an invocation only if, in that
\* invocation, authenticate and then authorize were both called and both
\* returned true.
C9_HandlerOnlyAfterBothChecks ==
    (Registered /\ InvokedTool.require_auth /\ HandlerExecuted)
        => (/\ Len(last[1].calls) = 2
            /\ last[1].calls[1].name = "authenticate"
            /\ last[1].calls[1].returned
            /\ last[1].calls[2].name = "authorize"
            /\ last[1].calls[2].returned)

\* C10: when a registered tool is invoked, the gate passes and the body
\* names the tool's declared parameters, the handler is called with every
\* item of the body bound to the parameter of that name and no binding
\* failure is reported; so cloud_backtest invoked with
\* {project_name: P, strategy_parameters: S, backtest_name: B} runs the
\* pipeline with P, S and B, and push_project with {project_name: P}
\* pushes P.
C10_BodyBoundToDeclaredParameters ==
    (/\ Registered
     /\ StatusCode \notin {401, 403}
     /\ BodyFits(InvokedTool, last[1].body))
        => (/\ HandlerExecuted
            /\ \A i \in 1..Len(last[1].body.v) :
                  DictGet(last[1].handler[1], last[1].body.v[i][1])
                      = last[1].body.v[i][2]
            /\ (last[1].name = "cloud_backtest" /\ last[1].body = FullBody)
                  => \E r \in RunIds :
                        /\ Started(r)
                        /\ args[r].project_name = Str(<<"P">>)
                        /\ args[r].backtest_name = Str(<<"R"," ","1">>)
            /\ (last[1].name = "push_project"
                /\ last[1].body = Dict(<< <<"project_name", Str(<<"P">>)>> >>))
                  => \E r \in RunIds :
                        proc[r] = <<FullCommand(push_changes(Str(<<"P">>)))>>)

\* ----------------------------------------------------------- the registries
\* C11: after any sequence of add_tools and add_resources calls, no two
\* entries of the tool registry carry the same name and no two entries of
\* the resource registry carry the same name (a repeated name is rejected
\* and the first descriptor is the only one kept).
C11_RegistryNamesUnique ==
    /\ \A i, j \in 1..Len(tools) : tools[i].name = tools[j].name => i = j
    /\ \A i, j \in 1..Len(resources) :
          resources[i].name = resources[j].name => i = j

\* C12: a POST to a tool name, or a GET of a resource name, that was never
\* registered is answered with the not-found response; no gate call, no
\* handler, no provider and no backing store is touched, and no exception
\* leaves the endpoint.
ToolRegistered(name) == \E i \in 1..Len(tools) : tools[i].name = name
ResourceRegistered(name) == \E i \in 1..Len(resources) : resources[i].name = name
C12_UnregisteredIsNotFound ==
    /\ (Invoked /\ ~ToolRegistered(last[1].name))
          => (/\ last[1].response = <<NotFound>>
              /\ last[1].calls = <<>>
              /\ ~HandlerExecuted
              /\ last[1].launched = <<>>
              /\ last[1].escaped = NoExc
              /\ \A r \in RunIds : ~Started(r))
    /\ (last # <<>> /\ last[1].kind = "resource"
        /\ ~ResourceRegistered(last[1].name))
          => (/\ last[1].response = <<NotFound>>
              /\ last[1].got = <<>>
              /\ last[1].escaped = NoExc)
C12_Witness ==
    /\ Invoked
    /\ ~ToolRegistered(last[1].name)
    /\ tools # <<>>
    /\ StatusCode = 404

\* C13: an exception raised by the handler call of a tool endpoint - in
\* binding the body to the handler's parameters or in the handler's body -
\* is answered with the 500 response carrying 'Tool execution failed: ' and
\* the exception's text; no exception leaves the endpoint.
C13_HandlerFaultIsCaught ==
    Invoked =>
        /\ last[1].escaped = NoExc
        /\ last[1].fault # NoExc =>
              last[1].response =
                 <<Response(500, [error |-> <<"Tool execution failed: ">>
                                               \o last[1].fault.msg])>>
C13_Witness ==
    /\ Invoked
    /\ last[1].fault # NoExc
    /\ ~HandlerExecuted
    /\ StatusCode = 500

\* ---------------------------------------------------------------- the bridges
BridgeCalled == last # <<>> /\ last[1].kind = "bridge"
Launching == BridgeCalled /\ last[1].command # <<>>

CodeFragments ==
    { "lean ", "cloud push ", "cloud backtest ", " --backtest-name ",
      "cloud live deploy ", " --environment ", "cloud status ",
      "project-create ", " --language ", " --backtest-id ", "backtest " }
SafeWords == { "python", "None", "mean_reversion", "BasicTemplateAlgorithm" }
\* Reading the command line as the shell does: some character outside
\* quotes is neither the code's own text nor a character that needs no
\* quoting.  q is the quote the reader is inside of ("" for none).
RECURSIVE UnquotedFrom(_, _, _)
UnquotedFrom(cmd, i, q) ==
    IF i > Len(cmd) THEN FALSE
    ELSE IF q # "" THEN UnquotedFrom(cmd, i + 1, IF cmd[i] = q THEN "" ELSE q)
    ELSE IF cmd[i] \in {"'", "\""} THEN UnquotedFrom(cmd, i + 1, cmd[i])
    ELSE IF cmd[i] \in CodeFragments \cup SafeWords \/ SafeAtom(cmd[i])
    THEN UnquotedFrom(cmd, i + 1, "")
    ELSE TRUE
QuotingOperations ==
    { "push_changes", "submit_cloud_backtest", "create_project",
      "get_backtest_status", "deploy_live", "local_backtest" }

\* C15: in every command line that push_changes, submit_cloud_backtest,
\* create_project, get_backtest_status, deploy_live and the local backtest
\* tool hand to the shell, each caller-supplied value is shell-escaped: no
\* character of it that the shell would interpret stands outside quotes.
C15_ArgumentsAreEscaped ==
    (Launching /\ last[1].op \in QuotingOperations)
        => ~UnquotedFrom(last[1].command[1], 1, "")

\* C16: when no 'lean' executable can be located, the result of the bridge
\* command has success false, return code -1 and the error text
\* "'lean' command not found. Check LEAN installation and PATH.".
C16_MissingLeanIsSentinel ==
    (Launching /\ last[1].po = <<LeanNotOnPath>>)
        => (/\ ~last[1].result[1].success
            /\ last[1].result[1].return_code = -1
            /\ last[1].result[1].error =
                  <<"'lean' command not found. Check LEAN installation and PATH.">>)

\* C17: every result of a command execution by LeanBridge.execute or
\* _execute_lean_command carries the four fields success, output, error and
\* return_code, on the exit path and on both fault paths, and success is
\* true exactly when the return code is 0.
C17_ResultFullyPopulated ==
    Launching =>
        /\ DOMAIN last[1].result[1] = {"success", "output", "error", "return_code"}
        /\ last[1].result[1].success <=> (last[1].result[1].return_code = 0)
C17_Witness ==
    /\ Launching
    /\ last[1].op = "push_changes"
    /\ last[1].po[1].kind = "OSError"
    /\ last[1].result[1].return_code = -1

\* ---------------------------------------------------------------- resources
FetchedRegistered ==
    last # <<>> /\ last[1].kind = "resource" /\ last[1].resource # <<>>
HasProvider == last[1].resource[1].access_method # <<>>
StoreFound == Truthy(last[1].resource[1].access_path) /\ last[1].file.exists

\* C18: a fetch selects its source in a fixed order.  A resource with an
\* access_method has it invoked and its outcome is the fetch's outcome,
\* whether or not a path is configured too, and the backing store is not
\* consulted.  Otherwise, with a path configured that exists, the store is
\* read and the parsed content is returned.  Otherwise the payload
\* {error: 'Resource not available'} is returned.
C18_SourceOrder ==
    FetchedRegistered =>
        LET got == last[1].got[1]
        IN  /\ HasProvider =>
                  /\ got.consulted = <<"access_method">>
                  /\ got.raised = last[1].provided.raised
                  /\ got.value = last[1].provided.value
                  /\ (got.raised = NoExc /\ EncodeExc(got.value[1]) = NoExc)
                        => last[1].response = <<Response(200, got.value[1])>>
            /\ (~HasProvider /\ StoreFound) =>
                  /\ got.consulted = <<"exists", "open">>
                  /\ got.raised = last[1].file.read.raised
                  /\ got.value = last[1].file.read.value
                  /\ got.raised = NoExc
                        => last[1].response = <<Response(200, got.value[1])>>
            /\ (~HasProvider /\ ~StoreFound) =>
                  /\ got.consulted \in {<<>>, <<"exists">>}
                  /\ got.raised = NoExc
                  /\ last[1].response = <<Response(200, NotAvailable)>>
C18_Witness ==
    /\ FetchedRegistered
    /\ HasProvider
    /\ StoreFound
    /\ last[1].file.read.raised = NoExc
    /\ last[1].response = <<Response(200, last[1].provided.value[1])>>

\* C19: a fetch of a registered resource never raises: with no provider and
\* no path, with the backing store missing (also when it goes away between
\* the existence check and the read) or unreadable, or with a failing
\* provider, get_data raises nothing, nothing leaves the endpoint and the
\* caller receives the payload {error: 'Resource not available'}.
C19_FetchNeverRaises ==
    FetchedRegistered =>
        /\ last[1].got[1].raised = NoExc
        /\ last[1].escaped = NoExc
        /\ (\/ HasProvider /\ last[1].provided.raised # NoExc
            \/ ~HasProvider /\ ~StoreFound
            \/ ~HasProvider /\ last[1].file.read.raised # NoExc)
              => last[1].response = <<Response(200, NotAvailable)>>

\* C20: every failure response carries a status field, a context tag and a
\* message: here, every outcome of cloud_backtest whose status is "error".
C20_FailuresCarryContextAndMessage ==
    \A r \in RunIds :
        (Done(r) /\ Returned(r).status = "error")
            => {"status", "context", "message"} \subseteq DOMAIN Returned(r)

\* ------------------------------------------------- more on the pipeline
\* C21: every outcome cloud_backtest returns - on success and on each error
\* path - carries the three fields status, backtest_id and details.
C21_OutcomeHasThreeFields ==
    \A r \in RunIds :
        Done(r) => {"status", "backtest_id", "details"} \subseteq DOMAIN Returned(r)

\* The strategy parameters are a mapping with no entry for 'symbol'.
NoSymbol(r) ==
    /\ Started(r)
    /\ args[r].strategy_parameters.t = "dict"
    /\ ~HasKey(args[r].strategy_parameters, "symbol")
StringArguments(r) ==
    /\ args[r].project_name.t = "str"
    /\ args[r].backtest_name.t \in {"str", "NoneType"}

\* C23: a run whose strategy parameters hold no symbol skips validation
\* without error and goes on to push_changes with the project name; it never
\* ends in a validation error, and (its names being strings) its outcome is
\* the one the push and submit results determine: "Push failed" after a
\* failed push, otherwise the outcome built from the submit result and the
\* identifier extracted from it.
C23_NoSymbolProceedsToPush ==
    \A r \in RunIds :
        NoSymbol(r) =>
            /\ ~Called(r, "_validate_symbol")
            /\ Len(trace[r]) >= 2
            /\ trace[r][1] = Ev("no_symbol", <<>>)
            /\ trace[r][2] = Ev("push_changes", <<args[r].project_name>>)
            /\ Done(r) => ~IsErrorWith(Returned(r), "Validation Error")
            /\ (Done(r) /\ StringArguments(r)) =>
                  \/ /\ PushReturned(r, FALSE)
                     /\ IsErrorWith(Returned(r), "Push failed")
                  \/ /\ PushReturned(r, TRUE)
                     /\ Called(r, "submit_returned")
                     /\ Returned(r) =
                           SubmitOutcome(SubmitResult(r),
                              IF SubmitResult(r).success
                              THEN _extract_backtest_id(SubmitResult(r).output)
                              ELSE None)
C23_Witness ==
    \E r \in RunIds :
        /\ NoSymbol(r)
        /\ Done(r)
        /\ PushReturned(r, TRUE)
        /\ SubmitReturned(r, TRUE)
        /\ Returned(r).status = "success"

\* ------------------------------------------- identifier extraction, alone
\* _extract_backtest_id applied to command output of every shape: labels in
\* several casings, separators, tokens, and output that already holds one
\* labelled identifier in front.
ExtractAtoms == OutAtoms \cup {"BACKTESTID", "backtestid", "BT2"}
ExtractLeads == {<<>>, <<"BacktestId", ":", "BT2", " ">>}
ExtractOutputs ==
    {lead \o out : lead \in ExtractLeads,
                   out \in UNION {[1..n -> ExtractAtoms] : n \in 0..MaxOut}}

\* The output of a finished lean command, before it is scanned.
InitExtract ==
    /\ environ = <<>>
    /\ pc = [r \in RunIds |-> "idle"]
    /\ args = [r \in RunIds |-> <<>>]
    /\ proc = [r \in RunIds |-> <<>>]
    /\ bt_result = [r \in RunIds |-> <<>>]
    /\ outcome = [r \in RunIds |-> <<>>]
    /\ trace = [r \in RunIds |-> <<>>]
    /\ tools = <<>>
    /\ routes = <<>>
    /\ authenticator = <<>>
    /\ serving = FALSE
    /\ resources = <<>>
    /\ NoExecutions
    /\ \E cli_output \in ExtractOutputs :
          last = <<[kind |-> "output", cli_output |-> cli_output]>>

ExtractBacktestId ==
    /\ last[1].kind = "output"
    /\ last' = <<[kind |-> "extract", cli_output |-> last[1].cli_output,
                  returned |-> _extract_backtest_id(last[1].cli_output)]>>
    /\ UNCHANGED <<tools, routes, authenticator, serving, resources>>
    /\ UNCHANGED <<pipelineVars, bridgeVars>>

NextExtract == ExtractBacktestId

SpecExtract == InitExtract /\ [][NextExtract]_vars

Extracted == last # <<>> /\ last[1].kind = "extract"

\* The label in any letter casing.
LabelCasings == {"backtestId", "BacktestId", "BACKTESTID", "backtestid"}

\* A label of one of the casings in L at i, separators up to k, and a token
\* that starts after k.
LabelledAt(L, out, i, k) ==
    /\ out[i] \in L
    /\ i < k /\ k < Len(out)
    /\ \A j \in (i + 1)..k : IsSep(out[j])
    /\ ~IsSpace(out[k + 1])

\* The first occurrence: label at i, separators up to k, token up to e.
FirstLabelled(L, out, i, k, e) ==
    /\ LabelledAt(L, out, i, k)
    /\ ~IsSep(out[k + 1])
    /\ k < e
    /\ \A j \in (k + 1)..e : ~IsSpace(out[j])
    /\ (e < Len(out) => IsSpace(out[e + 1]))
    /\ \A j \in 1..(i - 1) : \A m \in 1..Len(out) : ~LabelledAt(L, out, j, m)

\* C22: the label backtestId is matched in any letter casing, followed by
\* a separator and a token; the token of the first such occurrence in the
\* output is what extraction returns.
C22_LabelMatchedInAnyCasing ==
    Extracted =>
        LET out == last[1].cli_output
        IN  \A i, k, e \in 1..Len(out) :
                FirstLabelled(LabelCasings, out, i, k, e) =>
                    last[1].returned = Str(SubSeq(out, k + 1, e))

\* ------------------------------------------------- concurrent executions
NextConcurrent == BeginExecute \/ CreateSubprocess \/ Communicate

SpecConcurrent == InitRegistry /\ [][NextConcurrent]_vars

ExecuteDone(c) == frames[c].pc = "done"
Spawned(c) == {p \in 1..Len(processes) : processes[p].spawned_by = c}

\* C24: under every interleaving of the in-flight execute calls, a caller
\* whose process was launched receives the exit code, output and error
\* text of the process it launched itself, and that process ran the
\* caller's own command; no call reads what another call wrote.
C24_CallersGetTheirOwnResult ==
    \A c \in Callers :
        /\ \A p \in Spawned(c) :
              /\ processes[p].command = FullCommand(frames[c].command)
              /\ Spawned(c) = {p}
        /\ (ExecuteDone(c) /\ Spawned(c) # {}) =>
              \A p \in Spawned(c) :
                  /\ frames[c].returned[1].return_code = processes[p].po.rc
                  /\ frames[c].returned[1].output = processes[p].po.stdout
                  /\ frames[c].returned[1].error = processes[p].po.stderr
                  /\ frames[c].returned[1].success = (processes[p].po.rc = 0)
\* Two calls overlapped: the one that spawned first is still waiting while
\* the other, with another command, has already returned.
C24_Witness ==
    \E c, d \in Callers :
        /\ c # d
        /\ frames[c].pc = "communicate" /\ Spawned(c) = {1}
        /\ ExecuteDone(d) /\ Spawned(d) = {2}
        /\ frames[c].command # frames[d].command
        /\ frames[d].returned[1].output = processes[2].po.stdout
        /\ processes[1].po # processes[2].po

\* ------------------------------------------- invocations beside a running one
\* The server while one cloud_backtest activation is suspended at its
\* awaits: other invocations arrive and are answered in between.
BesideHeaders == {<<>>, << <<"Bearer ", "t">> >>}
BesideBodies ==
    { Dict(<<>>),
      Dict(<< <<"project_name", Str(<<"P">>)>> >>),
      Dict(<< <<"symbol", Str(SPY)>> >>) }
BesideOutcomes == {Exit(0, <<"backtestId", ":", "BT1">>, <<>>), Exit(1, <<>>, <<"e">>)}

RunStarts ==
    /\ \E r \in RunIds :
          cloud_backtest(r, Str(<<"P">>),
                         Dict(<< <<"symbol", Str(SPY)>> >>), None)
    /\ UNCHANGED <<serverVars, bridgeVars>>
RunPushEnds ==
    /\ \E r \in RunIds, po \in BesideOutcomes : PushReturns(r, po)
    /\ UNCHANGED <<serverVars, bridgeVars>>
RunSubmitEnds ==
    /\ \E r \in RunIds, po \in BesideOutcomes : SubmitReturns(r, po)
    /\ UNCHANGED <<serverVars, bridgeVars>>
InvokeBeside ==
    /\ \E name \in ToolNames, header \in BesideHeaders, body \in BesideBodies :
          create_tool_endpoint(name, header, body)
    /\ EndpointKeeps
    /\ UNCHANGED bridgeVars

NextInFlight ==
    \/ AddTools \/ Run \/ RunStarts \/ RunPushEnds \/ RunSubmitEnds
    \/ Collected \/ InvokeBeside

SpecInFlight == InitServer /\ [][NextInFlight]_vars

InFlight(r) == pc[r] \in {"await_push", "await_submit"}

\* C25: a step in which a tool invocation is answered (with a result, a
\* rejection of the gate, or a caught handler fault) leaves the registered
\* tools and routes, the registered resources and the authenticator with
\* its capability list as they were, and leaves every activation that is
\* in flight where it was, with its arguments, its awaited process and its
\* trace untouched.
C25_InvocationLeavesTheRestAlone ==
    [][last' # last =>
          /\ tools' = tools /\ routes' = routes
          /\ resources' = resources
          /\ authenticator' = authenticator
          /\ \A r \in RunIds :
                InFlight(r) =>
                    /\ pc'[r] = pc[r] /\ args'[r] = args[r]
                    /\ proc'[r] = proc[r] /\ trace'[r] = trace[r]
                    /\ bt_result'[r] = bt_result[r]
                    /\ outcome'[r] = outcome[r]]_vars
\* A run is waiting for its submit while an invocation has just been
\* refused by the gate.
C25_Witness ==
    /\ \E r \in RunIds : pc[r] = "await_submit"
    /\ Invoked /\ StatusCode = 403
    /\ authenticator # <<>>

\* ------------------------------------------------------ the authorizer, alone
\* An authenticator as the server may hold it, asked about any token and
\* any tool name, a few times in a row.
AuthorizeConfigs == Authenticators \cup {OAuth2Authenticator({}, {})}
AuthorizeTokens == {Str(<<>>), Str(<<"t">>), Str(<<"u">>), None}
AuthorizeToolNames == {"cloud_backtest", "push_project", "secured_tool",
                       "unregistered"}
InitAuthorize ==
    /\ environ = <<>>
    /\ pc = [r \in RunIds |-> "idle"]
    /\ args = [r \in RunIds |-> <<>>]
    /\ proc = [r \in RunIds |-> <<>>]
    /\ bt_result = [r \in RunIds |-> <<>>]
    /\ outcome = [r \in RunIds |-> <<>>]
    /\ trace = [r \in RunIds |-> <<>>]
    /\ tools = <<>>
    /\ routes = <<>>
    /\ authenticator \in {<<a>> : a \in AuthorizeConfigs}
    /\ serving = FALSE
    /\ last = <<>>
    /\ resources = <<>>
    /\ NoExecutions

\* last holds the calls of authorize made so far, in order.
Authorize ==
    /\ Len(last) < MaxAuthorizeCalls
    /\ \E token \in AuthorizeTokens, tool_name \in AuthorizeToolNames :
          last' = Append(last,
                    [kind |-> "authorize", token |-> token,
                     tool_name |-> tool_name,
                     returned |-> authorize(authenticator[1], token, tool_name)])
    /\ UNCHANGED <<tools, routes, authenticator, serving, resources>>
    /\ UNCHANGED <<pipelineVars, bridgeVars>>

NextAuthorize == Authorize

SpecAuthorize == InitAuthorize /\ [][NextAuthorize]_vars

\* C26: authorize returns true exactly when the tool name is in the
\* authenticator's auto-approved list, and two calls for the same tool
\* name return the same decision whatever their tokens are.
C26_AuthorizeIgnoresTheToken ==
    /\ \A i \in 1..Len(last) :
          last[i].returned =
              (last[i].tool_name \in authenticator[1].auto_approve_tools)
    /\ \A i, j \in 1..Len(last) :
          last[i].tool_name = last[j].tool_name =>
              last[i].returned = last[j].returned
\* Two different tokens, one of them empty, asked for one approved tool.
C26_Witness ==
    /\ Len(last) >= 2
    /\ last[1].tool_name = last[2].tool_name
    /\ last[1].token = Str(<<>>) /\ last[2].token = Str(<<"t">>)
    /\ last[1].returned /\ last[2].returned

\* --------------------------------------------- the allow-list while serving
\* The process environment changes while the server runs: the first
\* local_backtest invocation imports nlp.gemini_parser, whose load_dotenv()
\* sets the variables of the .env file that are not set yet.
DotenvValues == { <<"S","P","Y",",","Q","Q","Q">>, <<"T","S","L","A">> }

\* last remembers the environment the server was started in.
InitReload ==
    /\ environ \in Environs
    /\ pc = [r \in RunIds |-> "idle"]
    /\ args = [r \in RunIds |-> <<>>]
    /\ proc = [r \in RunIds |-> <<>>]
    /\ bt_result = [r \in RunIds |-> <<>>]
    /\ outcome = [r \in RunIds |-> <<>>]
    /\ trace = [r \in RunIds |-> <<>>]
    /\ tools = <<>>
    /\ routes = <<>>
    /\ authenticator = <<>>
    /\ serving = FALSE
    /\ last = <<[kind |-> "startup", environ |-> environ]>>
    /\ resources = <<>>
    /\ NoExecutions

LoadDotenv ==
    /\ environ = <<>>
    /\ \E v \in DotenvValues : environ' = <<v>>
    /\ UNCHANGED <<pc, args, proc, bt_result, outcome, trace>>
    /\ UNCHANGED <<serverVars, bridgeVars>>
ValidatedCall ==
    /\ \E r \in RunIds, sp \in StrategyParams :
          cloud_backtest(r, Str(<<"P">>), sp, None)
    /\ UNCHANGED <<serverVars, bridgeVars>>

NextReload ==
    \/ LoadDotenv \/ ValidatedCall \/ RunPushEnds \/ RunSubmitEnds \/ Collected

SpecReload == InitReload /\ [][NextReload]_vars

StartupEnviron == last[1].environ
ValidatedSymbol(r) == TheEvent(r, "_validate_symbol").a[1]

\* C27: every validation of a run uses the allow-list that was in effect
\* when the server started: the symbol passes exactly when it passes
\* against the startup value of ALLOWED_SYMBOLS, whatever the environment
\* holds by the time of the call.
C27_AllowListIsTheStartupOne ==
    \A r \in RunIds :
        (Started(r) /\ Called(r, "_validate_symbol")) =>
            (Called(r, "validated")
                <=> _validate_symbol(ValidatedSymbol(r), StartupEnviron) = NoExc)

\* ------------------------------------------------------------ push_project
\* push_project called with any Python value as the project name; the
\* push process ends in any way, printing any text.
PushProjectNames == BridgeArgs \cup {ServerObj}
PushProjectOutcomes == SubmitOutcomes \cup {LeanNotOnPath}

PushProjectCall ==
    /\ \E r \in RunIds, p \in PushProjectNames : push_project(r, p)
    /\ UNCHANGED <<serverVars, bridgeVars>>
PushProjectDone ==
    /\ \E r \in RunIds, po \in PushProjectOutcomes : PushProjectReturns(r, po)
    /\ UNCHANGED <<serverVars, bridgeVars>>

NextPushProject == PushProjectCall \/ PushProjectDone \/ Collected

SpecPushProject == InitRegistry /\ [][NextPushProject]_vars

BridgeReturned(r) == Called(r, "push_changes_returned")
PushProcess(r) == TheEvent(r, "push_changes_returned").a[1]

\* C28: push_project calls push_changes once, with the project name it
\* was given, calls nothing else (no validation, no submit), and when
\* push_changes returns, for a push that succeeded as for one that failed,
\* the value push_project returns is that result mapping, field by field
\* what the bridge built from the push process.
C28_PushProjectPassesThrough ==
    \A r \in RunIds :
        Started(r) =>
            /\ Cardinality(Events(r, "push_changes")) = 1
            /\ TheEvent(r, "push_changes").a = <<args[r].project_name>>
            /\ trace[r][1] = Ev("push_changes", <<args[r].project_name>>)
            /\ \A i \in 1..Len(trace[r]) :
                  trace[r][i].ev \in {"push_changes", "push_changes_returned"}
            /\ BridgeReturned(r) =>
                  /\ Done(r)
                  /\ Returned(r) = bt_result[r][1]
                  /\ DOMAIN Returned(r) =
                        {"success", "output", "error", "return_code"}
                  /\ PushProcess(r).kind = "exit" =>
                        /\ Returned(r).success = (PushProcess(r).rc = 0)
                        /\ Returned(r).output = PushProcess(r).stdout
                        /\ Returned(r).error = PushProcess(r).stderr
                        /\ Returned(r).return_code = PushProcess(r).rc
                  /\ PushProcess(r).kind # "exit" =>
                        /\ ~Returned(r).success
                        /\ Returned(r).return_code = -1
\* A failed push whose result came back as it was.
C28_Witness ==
    \E r \in RunIds :
        /\ Done(r) /\ BridgeReturned(r)
        /\ args[r].project_name = Str(<<"P", " ", "A">>)
        /\ PushProcess(r).kind = "exit" /\ PushProcess(r).rc = 1
        /\ ~Returned(r).success
        /\ Returned(r).error = <<"e">>

\* ------------------------------------------------- parse_gemini_response
\* Text is a sequence of atoms. The atom "<fence>" is the three backquotes
\* of a Markdown fence; it and "json" are made only of characters that the
\* strip of line 87 removes.
Whitespace == {" ", "\n"}
RECURSIVE LStrip(_, _)
LStrip(t, chars) ==
    IF t # <<>> /\ Head(t) \in chars THEN LStrip(Tail(t), chars) ELSE t
RECURSIVE RStrip(_, _)
RStrip(t, chars) ==
    IF t # <<>> /\ t[Len(t)] \in chars
    THEN RStrip(SubSeq(t, 1, Len(t) - 1), chars) ELSE t
\* str.strip(chars)
Strip(t, chars) == RStrip(LStrip(t, chars), chars)

RECURSIVE Join(_, _)
\* sep.join(pieces)
Join(pieces, sep) ==
    IF pieces = <<>> THEN <<>>
    ELSE IF Len(pieces) = 1 THEN pieces[1]
    ELSE pieces[1] \o <<sep>> \o Join(Tail(pieces), sep)

\* Lines 78-84: the text between the first and the last line of a fenced
\* block.
Unfenced(t) ==
    IF t # <<>> /\ t[1] = "<fence>" /\ t[Len(t)] = "<fence>"
    THEN LET lines == Split(t, "\n")
         IN  Join(SubSeq(lines, 2, Len(lines) - 1), "\n")
    ELSE t

\* Lines 89-95: the text from the first "{" to the last "}" when the text
\* does not start with "{".
Braced(t) ==
    IF t # <<>> /\ t[1] = "{" THEN t
    ELSE LET starts == {i \in 1..Len(t) : t[i] = "{"}
             ends == {i \in 1..Len(t) : t[i] = "}"}
         IN  IF starts # {} /\ ends # {} /\ Max(ends) > Min(starts)
             THEN SubSeq(t, Min(starts), Max(ends))
             ELSE t

\* Lines 78-95: what json.loads is given.
Cleaned(text) ==
    Braced(Strip(Strip(Unfenced(Strip(text, Whitespace)),
                       {"<fence>", "json", "\n"}),
                 {"<fence>"}))

\* json.loads on these atoms: an object {} , a number 1, 11, ..., each with
\* whitespace around it; anything else raises JSONDecodeError.
JsonLoads(t) ==
    LET u == Strip(t, Whitespace)
    IN  IF /\ Len(u) >= 2 /\ u[1] = "{" /\ u[Len(u)] = "}"
           /\ \A i \in 2..(Len(u) - 1) : u[i] \in Whitespace
        THEN "dict"
        ELSE IF u # <<>> /\ \A i \in 1..Len(u) : u[i] = "1"
        THEN "int"
        ELSE "JSONDecodeError"

\* The fallback fields every error mapping but two carries.
Fallback ==
    [action |-> <<"backtest">>, symbols |-> <<SPY>>,
     start_date |-> <<"2020-01-01">>, strategy_type |-> <<"mean_reversion">>]
WithFields(f, g) ==
    [k \in DOMAIN f \cup DOMAIN g |-> IF k \in DOMAIN f THEN f[k] ELSE g[k]]

\* Lines 141-150: the clause for any other exception of the parsing block;
OnDecodeErrorAsUnexpected(text) ==
    WithFields([error |-> <<"Unexpected JSON parsing error", ": ",
                            "Expecting value">>,
                raw_response |-> text], Fallback)
\* lines 129-140: the clause for json.JSONDecodeError.
OnDecodeError(text) ==
    WithFields([error |-> <<"Failed to parse Gemini response as JSON">>,
                raw_response |-> text], Fallback)

\* Lines 61-73: the clause around generate_content.
OnApiError(e) ==
    WithFields([error |-> <<"Gemini API call failed">>, message |-> e.msg],
               Fallback)

\* Lines 152-166: the clauses of the outer try.
OnOuterException(e) ==
    IF e.exc = "AttributeError"
    THEN [error |-> <<"Unexpected response structure from Gemini API.">>]
    ELSE [error |-> <<"Gemini API interaction failed", ": ">> \o e.msg,
          raw_response |-> Str(<<"<Response object not available>">>)]

\* Lines 76-150: the parsing block, given response.text.
ParseText(text) ==
    IF text.t # "str"
    THEN WithFields(
            [error |-> <<"Unexpected JSON parsing error", ": ", "'", text.t,
                         "' object has no attribute 'strip'">>,
             raw_response |-> text], Fallback)
    ELSE CASE JsonLoads(Cleaned(text.v)) = "JSONDecodeError" -> OnDecodeError(text)
           [] JsonLoads(Cleaned(text.v)) = "int" ->
                WithFields(
                   [error |-> <<"Unexpected JSON parsing error", ": ",
                                "Parsed JSON is not a valid dictionary">>,
                    raw_response |-> text], Fallback)
           [] OTHER ->
                [action |-> <<"backtest">>, symbols |-> <<SPY>>,
                 strategy_type |-> <<"mean_reversion">>,
                 start_date |-> <<"2020-01-01">>]

\* parse_gemini_response: api_key is os.getenv("GEMINI_API_KEY") (<<>> when
\* unset), construct the exception genai.GenerativeModel raises, generate
\* what generate_content does: it raises, or returns a response whose text
\* is read or raises when read.
parse_gemini_response(api_key, construct, generate) ==
    IF api_key = <<>> \/ api_key[1] \in {"", "your_gemini_api_key"}
    THEN WithFields(
            [error |-> <<"Gemini API key not configured">>,
             message |-> <<"Please set a valid GEMINI_API_KEY in your .env file">>],
            Fallback)
    ELSE IF construct # NoExc THEN OnOuterException(construct)
    ELSE IF generate.raised # NoExc THEN OnApiError(generate.raised)
    ELSE ParseText(generate.text)

ParserAtoms == {"<fence>", "json", "\n", " ", "{", "}", "1", "x"}
ParserLeads == {<<>>, <<"<fence>", "json", "\n">>}
ParserTrails == {<<>>, <<"\n", "<fence>">>}
ParserTexts ==
    {lead \o t \o trail :
        lead \in ParserLeads, trail \in ParserTrails,
        t \in UNION {[1..n -> ParserAtoms] : n \in 0..MaxOut}}
GenerateReturns(text) == [raised |-> NoExc, text |-> text]
GenerateRaises(e) == [raised |-> e, text |-> None]
ApiFaults ==
    { Exc("Exception", <<"API connection failed">>),
      Exc("AttributeError", <<"'NoneType' object has no attribute 'parts'">>),
      Exc("ValueError", <<"response.text requires a valid candidate">>) }
ParserInputs ==
    {[api_key |-> <<"test-api-key">>, construct |-> NoExc,
      generate |-> GenerateReturns(Str(t))] : t \in ParserTexts}
    \cup {[api_key |-> <<"test-api-key">>, construct |-> NoExc,
           generate |-> GenerateReturns(None)]}
    \cup {[api_key |-> <<"test-api-key">>, construct |-> NoExc,
           generate |-> GenerateRaises(e)] : e \in ApiFaults}
    \cup {[api_key |-> <<"test-api-key">>, construct |-> e,
           generate |-> GenerateReturns(Str(<<"{", "}">>))] : e \in ApiFaults}
    \cup {[api_key |-> k, construct |-> NoExc,
           generate |-> GenerateReturns(Str(<<"{", "}">>))] :
             k \in {<<>>, <<"">>, <<"your_gemini_api_key">>}}

InitParser ==
    /\ environ = <<>>
    /\ pc = [r \in RunIds |-> "idle"]
    /\ args = [r \in RunIds |-> <<>>]
    /\ proc = [r \in RunIds |-> <<>>]
    /\ bt_result = [r \in RunIds |-> <<>>]
    /\ outcome = [r \in RunIds |-> <<>>]
    /\ trace = [r \in RunIds |-> <<>>]
    /\ tools = <<>>
    /\ routes = <<>>
    /\ authenticator = <<>>
    /\ serving = FALSE
    /\ resources = <<>>
    /\ NoExecutions
    /\ \E in \in ParserInputs : last = <<[kind |-> "user_input", given |-> in]>>

ParseGeminiResponse ==
    /\ last[1].kind = "user_input"
    /\ last' = <<[kind |-> "parse", given |-> last[1].given,
                  returned |-> parse_gemini_response(last[1].given.api_key,
                                                     last[1].given.construct,
                                                     last[1].given.generate)]>>
    /\ UNCHANGED <<tools, routes, authenticator, serving, resources>>
    /\ UNCHANGED <<pipelineVars, bridgeVars>>

NextParser == ParseGeminiResponse

SpecParser == InitParser /\ [][NextParser]_vars

Parsed == last # <<>> /\ last[1].kind = "parse"
\* The model was reached: the key is configured and the client was built.
ModelCalled ==
    /\ Parsed
    /\ last[1].given.api_key # <<>>
    /\ last[1].given.api_key[1] \notin {"", "your_gemini_api_key"}
    /\ last[1].given.construct = NoExc
\* part occurs in text as a run of consecutive atoms.
Occurs(part, text) ==
    \E i \in 0..(Len(text) - Len(part)) :
        SubSeq(text, i + 1, i + Len(part)) = part

\* C29: when generate_content raises, the mapping returned has an error
\* field that contains the text Gemini API interaction failed and the
\* message of the exception.
C29_ApiErrorIsInteractionFailed ==
    (ModelCalled /\ last[1].given.generate.raised # NoExc) =>
        /\ "error" \in DOMAIN last[1].returned
        /\ Occurs(<<"Gemini API interaction failed">>, last[1].returned.error)
        /\ Occurs(last[1].given.generate.raised.msg, last[1].returned.error)

DecodeFails ==
    /\ ModelCalled
    /\ last[1].given.generate.raised = NoExc
    /\ last[1].given.generate.text.t = "str"
    /\ JsonLoads(Cleaned(last[1].given.generate.text.v)) = "JSONDecodeError"

\* C30: when the response text cannot be decoded as JSON (the decoding the
\* function attempts on it fails), the mapping returned has an error field
\* containing Failed to parse Gemini response as JSON, raw_response equal
\* to the response text as the model gave it, action backtest and SPY
\* among symbols.
C30_DecodeFailureFallsBack ==
    DecodeFails =>
        /\ {"error", "raw_response", "action", "symbols"}
              \subseteq DOMAIN last[1].returned
        /\ Occurs(<<"Failed to parse Gemini response as JSON">>,
                  last[1].returned.error)
        /\ last[1].returned.raw_response = last[1].given.generate.text
        /\ last[1].returned.action = <<"backtest">>
        /\ SPY \in Range(last[1].returned.symbols)
\* A fenced answer whose body is no JSON: the fence is removed for the
\* decoding, and comes back whole in raw_response.
C30_Witness ==
    /\ DecodeFails
    /\ last[1].given.generate.text = Str(<<"<fence>", "json", "\n", "x", "\n", "<fence>">>)
    /\ last[1].returned.raw_response.v # Cleaned(last[1].returned.raw_response.v)
    /\ last[1].returned.error = <<"Failed to parse Gemini response as JSON">>

\* ------------------------------------------------- runs on the same project
\* Several cloud_backtest activations at once; last is the log of the
\* command lines handed to the shell, in launch order, with the run that
\* launched each.
Runs == 1..MaxRuns
SharedProjects == {Str(<<"P">>), Str(<<"Q">>)}
InitRuns ==
    /\ environ = <<>>
    /\ pc = [r \in Runs |-> "idle"]
    /\ args = [r \in Runs |-> <<>>]
    /\ proc = [r \in Runs |-> <<>>]
    /\ bt_result = [r \in Runs |-> <<>>]
    /\ outcome = [r \in Runs |-> <<>>]
    /\ trace = [r \in Runs |-> <<>>]
    /\ tools = <<>>
    /\ routes = <<>>
    /\ authenticator = <<>>
    /\ serving = FALSE
    /\ last = <<>>
    /\ resources = <<>>
    /\ NoExecutions

Launched(r) ==
    last' = IF proc'[r] # <<>>
            THEN Append(last, [kind |-> "launch", run |-> r,
                               command |-> proc'[r][1]])
            ELSE last
StartOn(r, p) ==
    /\ cloud_backtest(r, p, Dict(<< <<"symbol", Str(SPY)>> >>), None)
    /\ Launched(r)
    /\ UNCHANGED <<tools, routes, authenticator, serving, resources>>
    /\ UNCHANGED bridgeVars
RunCalled == \E r \in Runs, p \in SharedProjects : StartOn(r, p)
RunPushed ==
    /\ \E r \in Runs, po \in BesideOutcomes :
          PushReturns(r, po) /\ Launched(r)
    /\ UNCHANGED <<tools, routes, authenticator, serving, resources>>
    /\ UNCHANGED bridgeVars
RunSubmitted ==
    /\ \E r \in Runs, po \in BesideOutcomes : SubmitReturns(r, po)
    /\ UNCHANGED <<serverVars, bridgeVars>>

NextRuns == RunCalled \/ RunPushed \/ RunSubmitted

SpecRuns == InitRuns /\ [][NextRuns]_vars

Publishing(r) == pc[r] \in {"await_push", "await_submit"}
LaunchOf(r, command) ==
    {i \in 1..Len(last) : last[i].run = r /\ last[i].command = command}

\* C31: nothing serializes runs on one project: while a run is between
\* its publish and the return of its submit, any idle run can start on the
\* same project at once, and its publish is launched in that very step.
C31_SameProjectRunsNotSerialized ==
    \A a, b \in Runs :
        (a # b /\ Publishing(a) /\ pc[b] = "idle") =>
            ENABLED StartOn(b, args[a].project_name)
\* B's publish was launched after A's publish and before A's submit.
C31_Witness ==
    \E a, b \in Runs :
        LET p == Str(<<"P">>)
            push == FullCommand(push_changes(p))
            submit == FullCommand(submit_cloud_backtest(p, None))
        IN  /\ a # b
            /\ args[a] # <<>> /\ args[b] # <<>>
            /\ args[a].project_name = p /\ args[b].project_name = p
            /\ \E i \in LaunchOf(a, push), j \in LaunchOf(b, push),
                  k \in LaunchOf(a, submit) : i < j /\ j < k
            /\ pc[a] = "done" /\ outcome[a][1].status = "success"

\* ------------------------------------------------------------ termination
\* The pipeline under the assumption that every external command exits:
\* a run that waits for its push or its submit gets the result.
LiveCall ==
    /\ \E r \in RunIds, p \in Projects, sp \in StrategyParams :
          cloud_backtest(r, p, sp, None)
    /\ UNCHANGED <<serverVars, bridgeVars>>
LivePushEnds ==
    /\ \E r \in RunIds, po \in PushOutcomes : PushReturns(r, po)
    /\ UNCHANGED <<serverVars, bridgeVars>>

NextLive == LiveCall \/ LivePushEnds \/ RunSubmitEnds \/ Collected

SpecLive ==
    /\ Init /\ [][NextLive]_vars
    /\ WF_vars(LivePushEnds) /\ WF_vars(RunSubmitEnds)

Progress(stage) ==
    CASE stage = "idle" -> {"idle", "await_push", "done"}
      [] stage = "await_push" -> {"await_push", "await_submit", "done"}
      [] stage = "await_submit" -> {"await_submit", "done"}
      [] OTHER -> {"done", "idle"}

\* C32: a run that waits for an external command ends in its terminal
\* state, with an outcome of status success or error, once the command
\* exits; a run calls push_changes at most once and submit_cloud_backtest
\* at most once, and its stage only moves forward.
C32_RunsTerminate ==
    /\ [](\A r \in RunIds :
            /\ Cardinality(Events(r, "push_changes")) <= 1
            /\ Cardinality(Events(r, "submit_cloud_backtest")) <= 1
            /\ Done(r) => Returned(r).status \in {"success", "error"})
    /\ [][\A r \in RunIds : pc'[r] \in Progress(pc[r])]_vars
    /\ \A r \in RunIds : (InFlight(r) ~> Done(r))
\* A run that went through both waits and ended.
C32_Witness ==
    \E r \in RunIds :
        /\ Done(r) /\ Called(r, "push_returned") /\ Called(r, "submit_returned")
        /\ Returned(r).status = "error"

\* ------------------------------------------------------ exceptions are caught
\* The exception other than a validation ValueError that run r raised, by
\* stage: parameters that are no mapping or a symbol that is no string
\* (validate), a project name shlex.quote rejects (publish), a backtest name
\* shlex.quote rejects (submit).
RaisedInValidate(r) ==
    LET sp == args[r].strategy_parameters
    IN  \/ sp.t # "dict"
        \/ /\ Truthy(DictGet(sp, "symbol"))
           /\ DictGet(sp, "symbol").t # "str"
RaisedInPublish(r) ==
    /\ Called(r, "push_changes")
    /\ args[r].project_name.t # "str"
RaisedInSubmit(r) ==
    /\ Called(r, "submit_cloud_backtest")
    /\ Truthy(args[r].backtest_name)
    /\ args[r].backtest_name.t # "str"

\* C33: cloud_backtest never propagates an exception to its caller: a run
\* that has ended has returned an outcome with a status, and when an
\* exception other than a validation ValueError was raised in the validate,
\* publish or submit stage, the outcome has status error and context
\* "Backtest process failed".
C33_ExceptionsBecomeOutcomes ==
    \A r \in RunIds :
        Done(r) =>
            /\ "status" \in DOMAIN Returned(r)
            /\ Returned(r).status \in {"success", "error"}
            /\ (RaisedInValidate(r) \/ RaisedInPublish(r) \/ RaisedInSubmit(r))
                  => IsErrorWith(Returned(r), "Backtest process failed")
C33_Witness ==
    \E r \in RunIds :
        /\ Done(r)
        /\ RaisedInSubmit(r)
        /\ PushReturned(r, TRUE)
        /\ IsErrorWith(Returned(r), "Backtest process failed")


\* ------------------------------------------------- status and identifier
HasBacktestId(res) ==
    "backtest_id" \in DOMAIN res /\ res.backtest_id # None

\* C34: in every outcome cloud_backtest returns, status is success exactly
\* when the push and the submit call were both made and both reported
\* success; a non-null backtest_id occurs only with status success, and an
\* outcome with status error has a null or absent backtest_id.
C34_SuccessIffBothStagesSucceeded ==
    \A r \in RunIds :
        Done(r) =>
            /\ Returned(r).status = "success"
                  <=> (PushReturned(r, TRUE) /\ SubmitReturned(r, TRUE))
            /\ HasBacktestId(Returned(r)) => Returned(r).status = "success"
            /\ Returned(r).status = "error" => ~HasBacktestId(Returned(r))
\* A failed submit whose output names an identifier all the same.
C34_Witness ==
    \E r \in RunIds :
        /\ Done(r)
        /\ PushReturned(r, TRUE)
        /\ SubmitReturned(r, FALSE)
        /\ _extract_backtest_id(SubmitResult(r).output) # None
        /\ Returned(r).status = "error"
        /\ Returned(r).backtest_id = None


\* ------------------------------------------------- several items in one call
\* A bare McpServer filled with lists of several tools and resources at a
\* time, then run, invoked and fetched from. The names of the pool are
\* distinct, so a name stands for one descriptor.
AdminTool == ToolFn("admin_tool", TRUE, <<"_">>, <<>>, "secured")
MountToolPool == {SecuredTool, AdminTool, DownloadDataTool}
MountResourcePool == {CloudProjects, RiskParameters}
Batches(pool) ==
    {b \in UNION {[1..n -> pool] : n \in 2..3} :
        \A i, j \in 1..Len(b) : b[i] = b[j] => i = j}
MountNames == {"secured_tool", "admin_tool", "download_market_data"}
MountHeaders == { <<>>, << <<"Bearer ", "t">> >> }
MountBodies == {Dict(<<>>), Dict(<< <<"symbol", Str(SPY)>> >>)}
MountFiles ==
    {f \in FileStates :
        f.read.raised \in {NoExc, Exc("JSONDecodeError", <<"Expecting value">>)}}

MountTools == \E ts \in Batches(MountToolPool) : add_tools(ts)
MountResources == \E rs \in Batches(MountResourcePool) : add_resources(rs)
MountInvoke ==
    /\ \E name \in MountNames, header \in MountHeaders, body \in MountBodies :
          create_tool_endpoint(name, header, body)
    /\ EndpointKeeps
    /\ UNCHANGED bridgeVars
MountFetch ==
    /\ ResourceRoutesFor("cloud_projects") # {}
    /\ \E name \in {"cloud_projects", "risk_parameters"}, file \in MountFiles :
          \E provided \in ProviderOutcomes(
                             resources[Min(ResourceRoutesFor(name))].access_method) :
             create_resource_endpoint(name, provided, file)

NextMount == MountTools \/ MountResources \/ Run \/ MountInvoke \/ MountFetch

SpecMount == InitRegistry /\ [][NextMount]_vars

\* The descriptor of the pool registered under a name.
PoolTool(name) == CHOOSE t \in MountToolPool : t.name = name
PoolResource(name) == CHOOSE x \in MountResourcePool : x.name = name

\* What the handler of a tool makes of the bound arguments.
HandledAs(tool, inv) ==
    LET bound == Bound(tool, RequestJson(inv.body))
    IN  /\ inv.handler = <<bound>>
        /\ inv.response =
              <<Response(200, IF tool.impl = "download_data"
                              THEN download_data(bound) ELSE secured(bound))>>

\* C35: after several tools or resources were registered in one add_tools
\* or add_resources call, the endpoint mounted under a name runs the gate
\* with the require_auth flag and the name of the tool registered under
\* that name and dispatches to its handler, and a resource endpoint calls
\* the provider of the resource registered under its name - not those of
\* the last item of the call.
C35_EndpointsKeepTheirOwnItem ==
    /\ Registered =>
          LET own == PoolTool(last[1].name)
              gate == Gate(own, last[1].header)
              be == BindExc(own, RequestJson(last[1].body))
          IN  /\ last[1].calls = gate.calls
              /\ gate.raised # <<>> =>
                    last[1].response = gate.raised /\ ~HandlerExecuted
              /\ (gate.raised = <<>> /\ be # NoExc) => last[1].fault = be
              /\ (gate.raised = <<>> /\ be = NoExc) => HandledAs(own, last[1])
    /\ (last # <<>> /\ last[1].kind = "resource" /\ last[1].resource # <<>>) =>
          /\ last[1].resource = <<PoolResource(last[1].name)>>
          /\ last[1].got = <<get_data(PoolResource(last[1].name),
                                      last[1].provided, last[1].file)>>
\* admin_tool was registered in one call with the open download tool as the
\* last item, and its endpoint refuses a token that has no entitlement.
C35_Witness ==
    /\ Registered
    /\ last[1].name = "admin_tool"
    /\ Len(routes) \in {2, 3}
    /\ routes[1].name = "admin_tool"
    /\ routes[Len(routes)].name = "download_market_data"
    /\ StatusCode = 403


\* ------------------------------------------------- two runs side by side
\* Two cloud_backtest activations, each with any arguments and any bridge
\* responses; last[r] is the log of run r: the responses its bridge calls
\* received and the command lines it handed to the shell, in order.
Twins == {1, 2}
TwinProjects == {Str(<<"P">>), Str(<<"P"," ","A">>)}
TwinParams ==
    StrategyParams
        \cup {Dict(<< <<"window", PyInt("20")>> >>),
              Dict(<< <<"symbol", Str(<<"B","T","C","U","S","D">>)>>,
                      <<"window", PyInt("5")>> >>)}
TwinOutcomes == BesideOutcomes \cup {LaunchFault("OSError", <<"E">>)}
InitTwins ==
    /\ environ = <<>>
    /\ pc = [r \in Twins |-> "idle"]
    /\ args = [r \in Twins |-> <<>>]
    /\ proc = [r \in Twins |-> <<>>]
    /\ bt_result = [r \in Twins |-> <<>>]
    /\ outcome = [r \in Twins |-> <<>>]
    /\ trace = [r \in Twins |-> <<>>]
    /\ tools = <<>>
    /\ routes = <<>>
    /\ authenticator = <<>>
    /\ serving = FALSE
    /\ last = [r \in Twins |-> <<>>]
    /\ resources = <<>>
    /\ NoExecutions

\* The log of run r after a step: the response received in it, if any, and
\* the command line launched in it, if any.
Logged(r, received) ==
    /\ last' = [last EXCEPT ![r] =
                  @ \o [i \in 1..Len(received) |->
                           [kind |-> "response", po |-> received[i]]]
                    \o (IF proc'[r] # <<>>
                        THEN <<[kind |-> "launch", command |-> proc'[r][1]]>>
                        ELSE <<>>)]
    /\ UNCHANGED <<tools, routes, authenticator, serving, resources>>
    /\ UNCHANGED bridgeVars
TwinCalled ==
    \E r \in Twins, p \in TwinProjects, sp \in TwinParams, b \in BacktestNames :
        cloud_backtest(r, p, sp, b) /\ Logged(r, <<>>)
TwinPushed ==
    \E r \in Twins, po \in TwinOutcomes : PushReturns(r, po) /\ Logged(r, <<po>>)
TwinSubmitted ==
    \E r \in Twins, po \in TwinOutcomes : SubmitReturns(r, po) /\ Logged(r, <<po>>)

NextTwins == TwinCalled \/ TwinPushed \/ TwinSubmitted

SpecTwins == InitTwins /\ [][NextTwins]_vars

LogOf(r, kind) == SelectSeq(last[r], LAMBDA e : e.kind = kind)
BridgeCalls(r) ==
    SelectSeq(trace[r],
              LAMBDA e : e.ev \in {"push_changes", "submit_cloud_backtest"})
\* The symbol of the parameters passes validation, or there is none.
SymbolPasses(sp) ==
    /\ sp.t = "dict"
    /\ Truthy(DictGet(sp, "symbol"))
    /\ _validate_symbol(DictGet(sp, "symbol"), environ) = NoExc
SymbolAbsent(sp) == sp.t = "dict" /\ ~HasKey(sp, "symbol")
\* Two ended runs that differ at most in their strategy_parameters.
Alike(a, b) ==
    /\ Done(a) /\ Done(b)
    /\ args[a].project_name = args[b].project_name
    /\ args[a].backtest_name = args[b].backtest_name
    /\ LogOf(a, "response") = LogOf(b, "response")
    /\ \/ SymbolPasses(args[a].strategy_parameters)
          /\ SymbolPasses(args[b].strategy_parameters)
       \/ SymbolAbsent(args[a].strategy_parameters)
          /\ SymbolAbsent(args[b].strategy_parameters)

\* C36: strategy_parameters influence a run only through the validation of
\* the symbol: two runs with the same project name, backtest name and
\* bridge responses, whose symbols both pass validation or are both absent,
\* make the same push and submit calls, hand the same command lines to the
\* shell and return the same outcome, whatever else the parameters hold
\* (the clock _format_error reads is taken to be the same for both).
C36_ParametersOnlyValidated ==
    \A a, b \in Twins :
        Alike(a, b) =>
            /\ BridgeCalls(a) = BridgeCalls(b)
            /\ LogOf(a, "launch") = LogOf(b, "launch")
            /\ Returned(a) = Returned(b)
\* Two runs with different parameters that both went through to a submit.
C36_Witness ==
    \E a, b \in Twins :
        /\ Alike(a, b)
        /\ args[a].strategy_parameters # args[b].strategy_parameters
        /\ DictGet(args[a].strategy_parameters, "symbol")
              # DictGet(args[b].strategy_parameters, "symbol")
        /\ Len(LogOf(a, "launch")) = 2
        /\ Returned(a).status = "success"


\* ------------------------------------------------- the cloud_projects resource
\* QuantConnectCloudBridge.list_projects: the mapping its body returns once
\* the coroutine is awaited.
list_projects ==
    Dict(<< <<"success", [t |-> "bool", v |-> <<"True">>]>>,
            <<"output", Str(<<"Placeholder: Project A, Project B">>)>>,
            <<"projects",
              [t |-> "list",
               v |-> << Dict(<< <<"name", Str(<<"Project A">>)>>,
                                <<"id", PyInt("123")>> >>),
                        Dict(<< <<"name", Str(<<"Project B">>)>>,
                                <<"id", PyInt("456")>> >>) >>]>>,
            <<"error", Str(<<>>)>> >>)

\* C37: fetching the registered cloud_projects resource returns what its
\* provider produces as a completed value: get_data returns the
\* list_projects payload (success flag, output text, projects list), not a
\* pending computation, and the caller receives it.
C37_CloudProjectsIsCompleted ==
    (FetchedRegistered /\ last[1].name = "cloud_projects") =>
        /\ last[1].got[1].raised = NoExc
        /\ last[1].got[1].value[1].t = "dict"
        /\ last[1].got[1].value[1] = list_projects
        /\ last[1].response = <<Response(200, list_projects)>>

====
